---- MODULE Spec2Model ----
(***************************************************************************)
(* State-machine model of the MySQL connector plugin:                      *)
(*   src/src/server/index.ts          (MySQLConnectorPlugin, the handlers) *)
(*   src/src/server/mysql-manager.ts  (MySQLManager, first class, l.32-669)*)
(* Every await of the code is a yield point: an operation is split into    *)
(* one action per synchronous segment.  Database, network and repository   *)
(* outcomes are chosen by the environment.                                 *)
(***************************************************************************)
EXTENDS Integers, Sequences, FiniteSets, TLC

\* ------------------------------------------------------------- bounds
MaxTasks == 2          \* request handlers that may be in flight together
MaxRequests == 3       \* requests admitted in one behaviour of Spec and SpecCache
MaxImportCalls == 2    \* importTables requests in one behaviour of SpecImport
MaxShortTables == 0    \* longest tableNames array in Spec
MaxConnects == 1       \* connect calls that reach uuidv4() in one behaviour
MaxPools == 3          \* pools mysql.createPool may construct in one behaviour
MaxTables == 4         \* longest tableNames array given to importTables
MaxTicks == 3          \* clock horizon, in ticks of TickMs
MaxCloseRuns == 2      \* closeAllConnections runs started in one behaviour
MaxIntervals == 4      \* clock horizon of SpecIdle and SpecReaper, in cleanup intervals
MaxSweepCalls == 4     \* requests and sweeps in one behaviour of SpecIdle and SpecReaper

\* ------------------------------------------------- program constants
CONCURRENCY == 3                 \* mysql-manager.ts:462
SCHEMA_CACHE_TTL == 600000       \* mysql-manager.ts:628  (10 * 60 * 1000)
CLEANUP_INTERVAL == 1800000      \* mysql-manager.ts:594  (30 * 60 * 1000)
IDLE_TIMEOUT == 3600000          \* mysql-manager.ts:604  (60 * 60 * 1000)

\* Date.now() is observed in steps of half the TTL
TickMs == SCHEMA_CACHE_TTL \div 2

\* ------------------------------------------------------------ domains
SavedIds == {1}                          \* ids persisted by an earlier run
Ids == 1..(1 + MaxConnects)              \* 2.. are the ids uuidv4() hands out
Origins == {"connect", "load"}           \* which code created an entry object
Tables == {"orders", "customers"}
Passwords == {"p1", "p2"}
Tasks == 1..MaxTasks                     \* request handler activations
Children == (MaxTasks + 1)..(MaxTasks + MaxTables)  \* importTables' map callbacks
Threads == Tasks \cup Children
Pools == 1..MaxPools

ChildOf(k) == MaxTasks + k               \* callback of tableNames[k]
IndexOf(c) == c - MaxTasks

Min(a, b) == IF a < b THEN a ELSE b

\* tableNames arrays a client may send: the table names alternate, so that a
\* name occurs twice in a batch and again in a later batch
TableAt(k) == IF k % 2 = 1 THEN "orders" ELSE "customers"
NameSeqs == {[k \in 1..n |-> TableAt(k)] : n \in 0..MaxTables}
ShortNameSeqs == {s \in NameSeqs : Len(s) <= MaxShortTables}

\* ------------------------------------------------------ Secret Cipher
NoPw == [k |-> "none", v |-> "-"]
Plain(p) == [k |-> "plain", v |-> p]

\* aes-256-cbc under a key that is not 32 bytes long makes createCipheriv
\* / createDecipheriv throw; keyValid says whether ENCRYPTION_KEY is usable.
EncryptPassword(pw, keyValid) ==
  IF keyValid /\ pw.k = "plain"
  THEN [ok |-> TRUE, val |-> [k |-> "cipher", v |-> pw.v]]
  ELSE [ok |-> FALSE, val |-> NoPw]

\* "iv:ciphertext" is split at ':'; a text that is not of that shape has no
\* second part and Buffer.from(undefined, 'hex') throws.
DecryptPassword(enc, keyValid) ==
  IF keyValid /\ enc.k = "cipher"
  THEN [ok |-> TRUE, val |-> [k |-> "plain", v |-> enc.v]]
  ELSE [ok |-> FALSE, val |-> NoPw]

\* ---------------------------------------------------- type mapper
\* A declared column Type (the Type column of DESCRIBE) is a sequence of
\* characters.
T_int == <<"i", "n", "t">>
T_tinyint == <<"t", "i", "n", "y", "i", "n", "t">>
T_bigint == <<"b", "i", "g", "i", "n", "t">>
T_decimal == <<"d", "e", "c", "i", "m", "a", "l">>
T_datetime == <<"d", "a", "t", "e", "t", "i", "m", "e">>
T_timestamp == <<"t", "i", "m", "e", "s", "t", "a", "m", "p">>
T_date == <<"d", "a", "t", "e">>
T_time == <<"t", "i", "m", "e">>
T_varchar == <<"v", "a", "r", "c", "h", "a", "r">>
T_json == <<"j", "s", "o", "n">>
T_text == <<"t", "e", "x", "t">>
T_smallint == <<"s", "m", "a", "l", "l", "i", "n", "t">>
T_mediumint == <<"m", "e", "d", "i", "u", "m", "i", "n", "t">>
T_float == <<"f", "l", "o", "a", "t">>
T_double == <<"d", "o", "u", "b", "l", "e">>
T_unsigned == <<" ", "u", "n", "s", "i", "g", "n", "e", "d">>
P_1 == <<"(", "1", ")">>
P_4 == <<"(", "4", ")">>
P_11 == <<"(", "1", "1", ")">>
P_20 == <<"(", "2", "0", ")">>
P_255 == <<"(", "2", "5", "5", ")">>
P_10_2 == <<"(", "1", "0", ",", "2", ")">>

Int11 == T_int \o P_11
TinyInt1 == T_tinyint \o P_1
Decimal102 == T_decimal \o P_10_2
Varchar255 == T_varchar \o P_255

\* the declared types a column of the server's tables may have
DeclaredTypes ==
  {Int11, TinyInt1, Decimal102, T_datetime, Varchar255, T_json,
   T_tinyint \o P_4, T_bigint \o P_20, TinyInt1 \o T_unsigned,
   T_timestamp, T_date, T_time, T_text,
   T_smallint \o P_4, T_mediumint \o P_11, T_float, T_double,
   <<"J", "S", "O", "N">>, <<"D", "A", "T", "E", "T", "I", "M", "E">>}

UpperCase == <<"A", "D", "E", "I", "J", "M", "N", "O", "S", "T">>
LowerCase == <<"a", "d", "e", "i", "j", "m", "n", "o", "s", "t">>

\* the /i flag of the regular expressions
Lower(c) ==
  IF \E k \in 1..Len(UpperCase) : UpperCase[k] = c
  THEN LowerCase[CHOOSE k \in 1..Len(UpperCase) : UpperCase[k] = c]
  ELSE c

LowerAll(s) == [k \in 1..Len(s) |-> Lower(s[k])]

\* p occurs in s at position k
MatchAt(s, p, k) ==
  /\ k + Len(p) - 1 <= Len(s)
  /\ \A j \in 1..Len(p) : s[k + j - 1] = p[j]

\* /^p/i
StartsWithI(s, p) == MatchAt(LowerAll(s), p, 1)

\* /^p$/i
EqualsI(s, p) == LowerAll(s) = p

\* String.prototype.includes, which is case-sensitive
Includes(s, p) == \E k \in 1..Len(s) : MatchAt(s, p, k)

\* a mapper that tests ^tinyint without the lookahead (faulty variant of
\* MapType)
MapTypeNoLookahead(type) ==
  IF \/ StartsWithI(type, T_int) \/ StartsWithI(type, T_bigint)
     \/ StartsWithI(type, T_smallint)
     \/ StartsWithI(type, T_mediumint)
     \/ StartsWithI(type, T_tinyint)
  THEN "integer"
  ELSE IF \/ StartsWithI(type, T_decimal)
          \/ StartsWithI(type, T_float)
          \/ StartsWithI(type, T_double)
  THEN "float"
  ELSE IF EqualsI(type, TinyInt1) THEN "boolean"
  ELSE IF StartsWithI(type, T_datetime) \/ StartsWithI(type, T_timestamp) THEN "datetime"
  ELSE IF Includes(type, T_date) THEN "date"
  ELSE IF Includes(type, T_time) THEN "time"
  ELSE IF Includes(type, T_json) THEN "json"
  ELSE "string"

\* a mapper that tests the substrings date and time before ^datetime and
\* ^timestamp (faulty variant of MapType)
MapTypeSubstringsFirst(type) ==
  IF \/ StartsWithI(type, T_int) \/ StartsWithI(type, T_bigint)
     \/ StartsWithI(type, T_smallint)
     \/ StartsWithI(type, T_mediumint)
     \/ (StartsWithI(type, T_tinyint) /\ ~MatchAt(LowerAll(type), P_1, Len(T_tinyint) + 1))
  THEN "integer"
  ELSE IF \/ StartsWithI(type, T_decimal)
          \/ StartsWithI(type, T_float)
          \/ StartsWithI(type, T_double)
  THEN "float"
  ELSE IF EqualsI(type, TinyInt1) THEN "boolean"
  ELSE IF Includes(type, T_date) THEN "date"
  ELSE IF Includes(type, T_time) THEN "time"
  ELSE IF StartsWithI(type, T_datetime) \/ StartsWithI(type, T_timestamp) THEN "datetime"
  ELSE IF Includes(type, T_json) THEN "json"
  ELSE "string"

\* importTable's field type for a column (lines 357-373): the first branch
\* that matches decides
MapType(type) ==
  IF \/ StartsWithI(type, T_int) \/ StartsWithI(type, T_bigint)
     \/ StartsWithI(type, T_smallint)
     \/ StartsWithI(type, T_mediumint)
     \/ (StartsWithI(type, T_tinyint) /\ ~MatchAt(LowerAll(type), P_1, Len(T_tinyint) + 1))
  THEN "integer"
  ELSE IF \/ StartsWithI(type, T_decimal)
          \/ StartsWithI(type, T_float)
          \/ StartsWithI(type, T_double)
  THEN "float"
  ELSE IF EqualsI(type, TinyInt1) THEN "boolean"
  ELSE IF StartsWithI(type, T_datetime) \/ StartsWithI(type, T_timestamp) THEN "datetime"
  ELSE IF Includes(type, T_date) THEN "date"
  ELSE IF Includes(type, T_time) THEN "time"
  ELSE IF Includes(type, T_json) THEN "json"
  ELSE "string"

\* -------------------------------------------------------------- state
VARIABLES
  shuttingDown,   \* MySQLConnectorPlugin.shuttingDown
  mgrNull,        \* MySQLConnectorPlugin.mysqlManager is not the manager the handlers
                  \* captured: null after remove, a new instance after a repeated load
  keyOK,          \* ENCRYPTION_KEY is a valid aes-256 key
  catalog,        \* the MySQL server's tables: table -> declared Type of its column
  store,          \* Credential Store: id -> stored (encrypted) password
  connections,    \* MySQLManager.connections: id -> entry object in the Map
  ent,            \* entry objects: <<id, origin>> -> fields
  pools,          \* pool objects made by mysql.createPool
  cache,          \* MySQLManager.tableSchemaCache: <<id, table>> -> timestamp
  now,            \* Date.now(), in ticks
  loadPc,         \* loadSavedConnections: "find" while awaiting repository.find()
  th,             \* handler activations and importTables callbacks
  imp,            \* the locals of the importTables call in progress
  nConn,          \* ids generated so far
  closeStarted,   \* closeAllConnections runs started
  closeRuns,      \* closeAllConnections runs: state, and the pools whose end() they await
  sweep,          \* the cleanupIdleConnections call in progress
  closeReturned,  \* some closeAllConnections run has returned
  disconnected,   \* ids for which a disconnect has returned { success: true }
  reqLeft         \* requests the clients may still send

vars == <<shuttingDown, mgrNull, keyOK, catalog, store, connections, ent, pools, cache,
          now, loadPc, th, imp, nConn, closeStarted, closeRuns, sweep,
          closeReturned, disconnected, reqLeft>>

NoEntry == [password |-> NoPw, connection |-> 0, lastUsed |-> -1]
FreePool == [st |-> "free", id |-> 0, pw |-> NoPw]

Idle == [op |-> "none", pc |-> "idle", id |-> 0, tbl |-> "-", pw |-> NoPw,
         obj |-> "none", pool |-> 0, t0 |-> 0, res |-> "-", err |-> "-",
         nDesc |-> 0, nIdx |-> 0, hit |-> FALSE, stale |-> FALSE,
         gcDrain |-> FALSE, gcRes |-> "-", endFailed |-> FALSE,
         msg |-> "-", out |-> "-", ret |-> "-", list |-> {}, fieldType |-> "-"]

NoRun == [st |-> "idle", pools |-> {}, nulls |-> FALSE]

NoSweep == [st |-> "idle", t0 |-> 0, id |-> 0, obj |-> "none", pool |-> 0]

NoImport == [st |-> "idle", task |-> 0, id |-> 0, names |-> <<>>, i |-> 1,
             successful |-> <<>>, failed |-> <<>>,
             attempts |-> [k \in 1..MaxTables |-> 0]]

\* the plugin and the manager after construction
InitState ==
  /\ shuttingDown = FALSE
  /\ mgrNull = FALSE
  /\ connections = [i \in Ids |-> "none"]
  /\ ent = [e \in Ids \X Origins |-> NoEntry]
  /\ pools = [p \in Pools |-> FreePool]
  /\ cache = [c \in Ids \X Tables |-> -1]
  /\ now = 0
  /\ loadPc = "find"
  /\ th = [x \in Threads |-> Idle]
  /\ imp = NoImport
  /\ nConn = 0
  /\ closeStarted = 0
  /\ closeRuns = [n \in 1..MaxCloseRuns |-> NoRun]
  /\ sweep = NoSweep
  /\ closeReturned = FALSE
  /\ disconnected = {}

\* the tables of the server the connections point at
DefaultCatalog == [tb \in Tables |-> IF tb = "orders" THEN Int11 ELSE Varchar255]

InitCommon ==
  /\ catalog = DefaultCatalog
  /\ keyOK \in BOOLEAN
  /\ store \in {[i \in Ids |-> IF i \in SavedIds THEN s ELSE NoPw] :
                   s \in {NoPw, [k |-> "cipher", v |-> "p1"]}}
  /\ InitState

Init == InitCommon /\ reqLeft = MaxRequests

InitImport == InitCommon /\ reqLeft = MaxImportCalls

\* two records saved by an earlier run, under a valid key
InitReaper ==
  /\ InitState
  /\ catalog = DefaultCatalog
  /\ keyOK = TRUE
  /\ store = [i \in Ids |-> [k |-> "cipher", v |-> "p1"]]
  /\ reqLeft = MaxSweepCalls

\* one saved record, and a server whose tables have columns of any declared
\* type
InitTypes ==
  /\ InitState
  /\ catalog \in [Tables -> DeclaredTypes]
  /\ keyOK = TRUE
  /\ store = [i \in Ids |-> IF i \in SavedIds THEN [k |-> "cipher", v |-> "p1"] ELSE NoPw]
  /\ reqLeft = 1

\* a guard that never sees the flag (faulty variant of IsShuttingDown)
IsShuttingDownNever == FALSE

\* index.ts 345: const isShuttingDown = () => this.shuttingDown
IsShuttingDown == shuttingDown

\* a request is dispatched to the lowest idle activation
FreeTask(t) ==
  /\ reqLeft > 0
  /\ t \in Tasks
  /\ th[t].pc = "idle"
  /\ \A u \in Tasks : u < t => th[u].pc # "idle"

\* ------------------------------------------------ schema cache lookup
\* a lookup that never expires an entry (faulty variant of CacheFresh)
CacheFreshNoExpiry(ts, t) == ts # -1

\* a lookup that still serves an entry whose age is exactly the TTL (faulty
\* variant of CacheFresh)
CacheFreshInclusive(ts, t) == ts # -1 /\ (t - ts) * TickMs <= SCHEMA_CACHE_TTL

\* getTableSchema: cachedSchema && (now - cachedSchema.timestamp) < TTL
CacheFresh(ts, t) == ts # -1 /\ (t - ts) * TickMs < SCHEMA_CACHE_TTL

\* ------------------------------------------- importTables' batching
\* a slice one element too long (faulty variant of BatchEnd)
BatchEndWide(i, n) == Min(i + CONCURRENCY, n)

\* tableNames.slice(i, i + CONCURRENCY), as the last index of the batch
BatchEnd(i, n) == Min(i + CONCURRENCY - 1, n)
Batch(i, n) == i..BatchEnd(i, n)

\* ---------------------------------------------------- listConnections
\* a status that reports every registered entry as connected (faulty variant
\* of ListStatus)
ListStatusAlwaysConnected(conn) == "connected"

\* status: conn.connection ? 'connected' : 'disconnected'  (line 249)
ListStatus(conn) == IF conn # 0 THEN "connected" ELSE "disconnected"

ListConnections ==
  {[id |-> i, status |-> ListStatus(ent[<<i, connections[i]>>].connection)] :
      i \in {j \in Ids : connections[j] # "none"}}

\* -------------------------------------- the synchronous segments
\* The part of the state one synchronous segment may change; stuck is set
\* when the segment needs a pool beyond MaxPools.
St == [th |-> th, pools |-> pools, ent |-> ent, imp |-> imp, stuck |-> FALSE]

Terminal(r) == r.pc \in {"ok", "failed"}

\* results.successful.push of the map callback (lines 475-480)
RecordSuccess(im, k, name) ==
  [im EXCEPT !.successful = Append(@, [k |-> k, tableName |-> name, error |-> "-"])]

\* a catch that records nothing (faulty variant of RecordFailure)
RecordFailureDropped(im, k, name, kind) == im

\* results.failed.push of the map callback (lines 481-490)
RecordFailure(im, k, name, kind) ==
  [im EXCEPT !.failed = Append(@, [k |-> k, tableName |-> name, error |-> kind])]

\* the end of one map callback of importTables (lines 475-490)
ChildEnd(st, x, r, ok, kind) ==
  [st EXCEPT !.th[x] = [r EXCEPT !.pc = IF ok THEN "ok" ELSE "failed", !.err = kind],
             !.imp = IF ok THEN RecordSuccess(@, IndexOf(x), r.tbl)
                     ELSE RecordFailure(@, IndexOf(x), r.tbl, kind)]

\* an error thrown below listTables / getTableSchema / importTable
Fail(st, x, r, kind) ==
  CASE r.op = "listTables" ->
         [st EXCEPT !.th[x] = [r EXCEPT !.pc = "done", !.res = kind, !.err = kind]]
    [] r.op = "getTableSchema" ->
         \* the catch block of getTableSchema is empty (lines 665-667): the call
         \* returns undefined and the handler's schema.columns throws a TypeError
         [st EXCEPT !.th[x] = [r EXCEPT !.pc = "done", !.res = "TypeError", !.err = kind,
                                       !.ret = "undefined", !.out = "TypeError"]]
    [] OTHER ->
         \* importTable: schema.columns throws the TypeError (line 353), which
         \* is rethrown at 446 and recorded by the callback at 484-487
         [st EXCEPT !.th[x] = [r EXCEPT !.pc = "failed", !.err = kind,
                                       !.ret = "undefined", !.out = "TypeError"],
                    !.imp = RecordFailure(@, IndexOf(x), r.tbl, "TypeError")]

\* getConnection has returned r.pool to its caller
Proceed(st, x, r) ==
  IF r.op = "listTables"
  THEN [st EXCEPT !.th[x] = [r EXCEPT !.pc = "query"]]                       \* pool.query('SHOW TABLES')
  ELSE [st EXCEPT !.th[x] = [r EXCEPT !.pc = "describe", !.nDesc = @ + 1]]   \* pool.execute('DESCRIBE ??')

\* getTableSchema has a schema to return
SchemaReady(st, x, r) ==
  IF r.op = "getTableSchema"
  THEN [st EXCEPT !.th[x] = [r EXCEPT !.pc = "done", !.res = "schema", !.ret = "schema"]]
  ELSE \* importTable maps the column types (353-397) and awaits collectionsRepo.create
       [st EXCEPT !.th[x] = [r EXCEPT !.pc = "create", !.ret = "schema",
                                      !.fieldType = MapType(catalog[r.tbl])]]

\* a lookup that hands out a pool some entry already holds, whatever its id
\* (faulty variant of GetConnection)
GetConnectionSharesPool(st, x, r) ==
  LET o    == connections[r.id]
      r1   == [r EXCEPT !.obj = o, !.gcDrain = shuttingDown]
      held == {st.ent[k].connection : k \in DOMAIN st.ent} \ {0}
  IN
  IF o = "none"
  THEN Fail(st, x, [r1 EXCEPT !.gcRes = "NotFound"], "NotFound")
  ELSE
    IF held # {}
    THEN LET p == CHOOSE q \in held : \A q2 \in held : q <= q2 IN
         Proceed([st EXCEPT !.ent[<<r.id, o>>].connection = p,
                            !.ent[<<r.id, o>>].lastUsed = now], x,
                 [r1 EXCEPT !.pool = p, !.gcRes = "ok"])
    ELSE
      LET d == DecryptPassword(st.ent[<<r.id, o>>].password, keyOK) IN
      IF ~d.ok
      THEN Fail(st, x, [r1 EXCEPT !.gcRes = "PoolCreationFailed"], "PoolCreationFailed")
      ELSE
        LET free == {p \in Pools : st.pools[p].st = "free"} IN
        IF free = {}
        THEN [st EXCEPT !.stuck = TRUE]
        ELSE
          LET p == CHOOSE q \in free : \A q2 \in free : q <= q2 IN
          [st EXCEPT !.pools[p] = [st |-> "open", id |-> r.id, pw |-> d.val],
                     !.th[x] = [r1 EXCEPT !.pc = "validate", !.pool = p,
                                          !.gcRes = "pending"]]

\* getConnection up to its first await (lines 263-292)
GetConnection(st, x, r) ==
  LET o  == connections[r.id]
      r1 == [r EXCEPT !.obj = o, !.gcDrain = shuttingDown]
  IN
  IF o = "none"
  THEN Fail(st, x, [r1 EXCEPT !.gcRes = "NotFound"], "NotFound")
  ELSE
    LET e == st.ent[<<r.id, o>>] IN
    IF e.connection # 0
    THEN Proceed([st EXCEPT !.ent[<<r.id, o>>].lastUsed = now], x,
                 [r1 EXCEPT !.pool = e.connection, !.gcRes = "ok"])
    ELSE
      LET d == DecryptPassword(e.password, keyOK) IN
      IF ~d.ok
      THEN Fail(st, x, [r1 EXCEPT !.gcRes = "PoolCreationFailed"], "PoolCreationFailed")
      ELSE
        LET free == {p \in Pools : st.pools[p].st = "free"} IN
        IF free = {}
        THEN [st EXCEPT !.stuck = TRUE]
        ELSE
          LET p == CHOOSE q \in free : \A q2 \in free : q <= q2 IN
          [st EXCEPT !.pools[p] = [st |-> "open", id |-> r.id, pw |-> d.val],
                     !.th[x] = [r1 EXCEPT !.pc = "validate", !.pool = p,
                                          !.gcRes = "pending"]]

\* getTableSchema up to its first await (lines 630-647)
GetTableSchema(st, x, r) ==
  LET ts == cache[<<r.id, r.tbl>>] IN
  IF CacheFresh(ts, now)
  THEN SchemaReady(st, x, [r EXCEPT !.hit = TRUE])
  ELSE GetConnection(st, x, [r EXCEPT !.stale = (ts # -1)])

\* one map callback: importTable(connectionId, tableName, `mysql_${tableName}`)
StartChild(st, k) ==
  GetTableSchema([st EXCEPT !.imp.attempts[k] = @ + 1], ChildOf(k),
                 [Idle EXCEPT !.op = "importTable", !.id = st.imp.id,
                              !.tbl = st.imp.names[k], !.t0 = now])

\* batch.map(async ...) runs its callbacks in order, each up to its first await
RECURSIVE LaunchFrom(_, _, _)
LaunchFrom(st, k, hi) ==
  IF k > hi \/ st.stuck THEN st
  ELSE LaunchFrom(StartChild(st, k), k + 1, hi)

\* importTables returns results (lines 497-502)
ImportFinish(st) ==
  [st EXCEPT !.imp.st = "done",
             !.th[st.imp.task] = [@ EXCEPT !.pc = "done", !.res = "ok"]]

\* a loop that does not await Promise.all: every batch is launched in the turn
\* of the call (faulty variant of Advance)
RECURSIVE AdvanceNoAwait(_)
AdvanceNoAwait(st) ==
  IF st.imp.st # "running" \/ st.stuck THEN st
  ELSE
    LET n == Len(st.imp.names)
        j == st.imp.i + CONCURRENCY
    IN
    IF j > n
    THEN IF \E k \in 1..n : ~Terminal(st.th[ChildOf(k)]) THEN st ELSE ImportFinish(st)
    ELSE AdvanceNoAwait(LaunchFrom([st EXCEPT !.imp.i = j], j, BatchEnd(j, n)))

\* await Promise.all(batchPromises) and the for loop (lines 465-495): when the
\* last callback of the batch has ended, the next batch starts in the same turn
RECURSIVE Advance(_)
Advance(st) ==
  IF st.imp.st # "running" \/ st.stuck THEN st
  ELSE
    LET n == Len(st.imp.names) IN
    IF \E k \in Batch(st.imp.i, n) : ~Terminal(st.th[ChildOf(k)])
    THEN st
    ELSE
      LET j == st.imp.i + CONCURRENCY IN
      IF j > n THEN ImportFinish(st)
      ELSE Advance(LaunchFrom([st EXCEPT !.imp.i = j], j, BatchEnd(j, n)))

Commit(st) ==
  /\ ~st.stuck
  /\ th' = st.th
  /\ pools' = st.pools
  /\ ent' = st.ent
  /\ imp' = st.imp

\* ------------------------------------------------- startup load
\* a load that leaves the entries that are already registered as they are
\* (faulty variant of LoadDone)
LoadDoneKeepsExisting(ok) ==
  /\ UNCHANGED reqLeft
  /\ loadPc = "find"
  /\ loadPc' = "done"
  /\ IF ok
     THEN /\ connections' = [i \in Ids |-> IF store[i] # NoPw /\ connections[i] = "none"
                                           THEN "load" ELSE connections[i]]
          /\ ent' = [e \in Ids \X Origins |->
                       IF e[2] = "load" /\ store[e[1]] # NoPw /\ connections[e[1]] = "none"
                       THEN [password |-> store[e[1]], connection |-> 0, lastUsed |-> -1]
                       ELSE ent[e]]
     ELSE UNCHANGED <<connections, ent>>
  /\ UNCHANGED <<shuttingDown, mgrNull, keyOK, catalog, store, pools, cache, now, th, imp,
                 nConn, closeStarted, closeRuns, sweep, closeReturned, disconnected>>

\* loadSavedConnections after `await repository.find()` (lines 52-92); ok is
\* FALSE when db.sequelize is missing or find() rejects.  The constructor does
\* not await the load (line 47), so it may complete after requests have been
\* served; find() yields the records the store holds when it resolves.
LoadDone(ok) ==
  /\ UNCHANGED reqLeft
  /\ loadPc = "find"
  /\ loadPc' = "done"
  /\ IF ok
     THEN /\ connections' = [i \in Ids |-> IF store[i] # NoPw THEN "load" ELSE connections[i]]
          /\ ent' = [e \in Ids \X Origins |->
                       IF e[2] = "load" /\ store[e[1]] # NoPw
                       THEN [password |-> store[e[1]], connection |-> 0, lastUsed |-> -1]
                       ELSE ent[e]]
     ELSE UNCHANGED <<connections, ent>>
  /\ UNCHANGED <<shuttingDown, mgrNull, keyOK, catalog, store, pools, cache, now, th, imp,
                 nConn, closeStarted, closeRuns, sweep, closeReturned, disconnected>>

\* ------------------------------------------------------- connect
ErrorCodes == {"ECONNREFUSED", "ER_ACCESS_DENIED_ERROR", "ER_BAD_DB_ERROR",
               "ETIMEDOUT", "OTHER"}

\* the catch block of connect (lines 168-179)
Classify(code) ==
  CASE code = "ECONNREFUSED" -> "ConnectionRefused"
    [] code = "ER_ACCESS_DENIED_ERROR" -> "AuthenticationFailed"
    [] code = "ER_BAD_DB_ERROR" -> "DatabaseNotFound"
    [] code = "ETIMEDOUT" -> "Timeout"
    [] OTHER -> "ConnectionError"

\* what the probe, the cipher or the record write may throw: the driver's
\* error.code and what its error.message reads like (a message may name a
\* condition that the code does not)
Errors == [code : ErrorCodes, text : ErrorCodes]
PlainErrors == {e \in Errors : e.text = e.code}
ProbeOk == [code |-> "ok", text |-> "-"]
CipherError == [code |-> "OTHER", text |-> "CipherError"]
SaveError == [code |-> "OTHER", text |-> "SaveFailed"]

\* a classification that reads the message (faulty variant of ErrorKind)
ErrorKindByText(e) == Classify(e.text)

\* the catch block of connect tests error.code (lines 169-177)
ErrorKind(e) == Classify(e.code)

\* the Error connect throws (lines 170-178): the four specific kinds have a
\* fixed message, the generic one embeds error.message
ConnectFailure(r, e) ==
  [r EXCEPT !.pc = "done", !.res = ErrorKind(e), !.err = e.code, !.msg = e.text,
            !.out = IF ErrorKind(e) = "ConnectionError" THEN e.text ELSE "-"]

\* an entry that keeps a connection, as the second MySQLManager class of the
\* file does at lines 795-799 (faulty variant of ConnectEntry)
ConnectEntryKeepsProbe(pw) == [password |-> pw, connection |-> 1, lastUsed |-> -1]

\* the in-memory entry connect inserts (lines 153-156)
ConnectEntry(pw) == [password |-> pw, connection |-> 0, lastUsed |-> -1]

\* index.ts connect handler (368-392) and connect up to createConnection
HandleConnect(t, p) ==
  /\ reqLeft' = reqLeft - 1
  /\ FreeTask(t)
  /\ IF IsShuttingDown
     THEN th' = [th EXCEPT ![t] = [Idle EXCEPT !.op = "connect", !.pc = "done",
                                               !.res = "ShuttingDown"]]
     ELSE th' = [th EXCEPT ![t] = [Idle EXCEPT !.op = "connect", !.pc = "probe",
                                               !.pw = Plain(p)]]
  /\ UNCHANGED <<shuttingDown, mgrNull, keyOK, catalog, store, connections, ent, pools, cache,
                 now, loadPc, imp, nConn, closeStarted, closeRuns, sweep, closeReturned,
                 disconnected>>

\* the probe (createConnection, connect, end) has settled; on success the id
\* is generated and the password encrypted (lines 104-134)
ConnectProbeDone(t, out) ==
  /\ UNCHANGED reqLeft
  /\ th[t].op = "connect" /\ th[t].pc = "probe"
  /\ IF out = ProbeOk
     THEN /\ nConn < MaxConnects
          /\ nConn' = nConn + 1
          /\ IF EncryptPassword(th[t].pw, keyOK).ok
             THEN th' = [th EXCEPT ![t].pc = "create", ![t].id = 1 + nConn + 1]
             ELSE th' = [th EXCEPT ![t] = ConnectFailure(@, CipherError)]
     ELSE /\ th' = [th EXCEPT ![t] = ConnectFailure(@, out)]
          /\ UNCHANGED nConn
  /\ UNCHANGED <<shuttingDown, mgrNull, keyOK, catalog, store, connections, ent, pools, cache,
                 now, loadPc, imp, closeStarted, closeRuns, sweep, closeReturned,
                 disconnected>>

\* an entry inserted whether or not the record was written (faulty variant of
\* ConnectCreateDone)
ConnectCreateDoneAlwaysInserts(t, ok) ==
  /\ UNCHANGED reqLeft
  /\ th[t].op = "connect" /\ th[t].pc = "create"
  /\ connections' = [connections EXCEPT ![th[t].id] = "connect"]
  /\ ent' = [ent EXCEPT ![<<th[t].id, "connect">>] = ConnectEntry(th[t].pw)]
  /\ IF ok
     THEN /\ store' = [store EXCEPT ![th[t].id] = EncryptPassword(th[t].pw, keyOK).val]
          /\ th' = [th EXCEPT ![t].pc = "done", ![t].res = "ok"]
     ELSE /\ th' = [th EXCEPT ![t] = ConnectFailure(@, SaveError)]
          /\ UNCHANGED store
  /\ UNCHANGED <<shuttingDown, mgrNull, keyOK, catalog, pools, cache, now, loadPc, imp, nConn,
                 closeStarted, closeRuns, sweep, closeReturned, disconnected>>

\* repository.create has settled (lines 137-159)
ConnectCreateDone(t, ok) ==
  /\ UNCHANGED reqLeft
  /\ th[t].op = "connect" /\ th[t].pc = "create"
  /\ IF ok
     THEN /\ store' = [store EXCEPT ![th[t].id] = EncryptPassword(th[t].pw, keyOK).val]
          /\ connections' = [connections EXCEPT ![th[t].id] = "connect"]
          /\ ent' = [ent EXCEPT ![<<th[t].id, "connect">>] = ConnectEntry(th[t].pw)]
          /\ th' = [th EXCEPT ![t].pc = "done", ![t].res = "ok"]
     ELSE /\ th' = [th EXCEPT ![t] = ConnectFailure(@, SaveError)]
          /\ UNCHANGED <<store, connections, ent>>
  /\ UNCHANGED <<shuttingDown, mgrNull, keyOK, catalog, pools, cache, now, loadPc, imp, nConn,
                 closeStarted, closeRuns, sweep, closeReturned, disconnected>>

\* ---------------------------------------------------- disconnect
\* pool.end() is called on a pool
EndRequested(pl, p) ==
  IF pl[p].st = "open" THEN [pl EXCEPT ![p].st = "ending"] ELSE pl

\* index.ts disconnect handler (393-404) and disconnect up to its first await
HandleDisconnect(t, i) ==
  /\ reqLeft' = reqLeft - 1
  /\ FreeTask(t)
  /\ LET o == connections[i]
         r == [Idle EXCEPT !.op = "disconnect", !.id = i, !.obj = o]
     IN
     IF o = "none"
     THEN /\ th' = [th EXCEPT ![t] = [r EXCEPT !.pc = "done", !.res = "NotFound"]]
          /\ UNCHANGED pools
     ELSE IF ent[<<i, o>>].connection # 0
          THEN /\ pools' = EndRequested(pools, ent[<<i, o>>].connection)
               /\ th' = [th EXCEPT ![t] = [r EXCEPT !.pc = "end",
                                                    !.pool = ent[<<i, o>>].connection]]
          ELSE /\ th' = [th EXCEPT ![t] = [r EXCEPT !.pc = "destroy"]]
               /\ UNCHANGED pools
  /\ UNCHANGED <<shuttingDown, mgrNull, keyOK, catalog, store, connections, ent, cache, now,
                 loadPc, imp, nConn, closeStarted, closeRuns, sweep, closeReturned,
                 disconnected>>

\* `await pool.end()` has settled (lines 195-198, 221-236)
DisconnectEndDone(t) ==
  /\ UNCHANGED reqLeft
  /\ th[t].op = "disconnect" /\ th[t].pc = "end"
  /\ pools[th[t].pool].st \in {"closed", "endfailed"}
  /\ IF pools[th[t].pool].st = "closed"
     THEN /\ ent' = [ent EXCEPT ![<<th[t].id, th[t].obj>>].connection = 0]
          /\ th' = [th EXCEPT ![t].pc = "destroy"]
          /\ UNCHANGED <<connections, disconnected>>
     ELSE /\ connections' = [connections EXCEPT ![th[t].id] = "none"]
          /\ th' = [th EXCEPT ![t].pc = "done", ![t].res = "DisconnectError",
                              ![t].endFailed = TRUE]
          /\ UNCHANGED <<ent, disconnected>>
  /\ UNCHANGED <<shuttingDown, mgrNull, keyOK, catalog, store, pools, cache, now, loadPc, imp,
                 nConn, closeStarted, closeRuns, sweep, closeReturned>>

\* repository.destroy has settled (lines 201-220)
DisconnectDestroyDone(t, ok) ==
  /\ UNCHANGED reqLeft
  /\ th[t].op = "disconnect" /\ th[t].pc = "destroy"
  /\ store' = IF ok THEN [store EXCEPT ![th[t].id] = NoPw] ELSE store
  /\ connections' = [connections EXCEPT ![th[t].id] = "none"]
  /\ th' = [th EXCEPT ![t].pc = "done", ![t].res = "ok"]
  /\ disconnected' = disconnected \cup {th[t].id}
  /\ UNCHANGED <<shuttingDown, mgrNull, keyOK, catalog, ent, pools, cache, now, loadPc, imp,
                 nConn, closeStarted, closeRuns, sweep, closeReturned>>

\* the driver settles a requested pool.end()
PoolEndSettle(p, ok) ==
  /\ UNCHANGED reqLeft
  /\ pools[p].st = "ending"
  /\ pools' = [pools EXCEPT ![p].st = IF ok THEN "closed" ELSE "endfailed"]
  /\ UNCHANGED <<shuttingDown, mgrNull, keyOK, catalog, store, connections, ent, cache, now,
                 loadPc, th, imp, nConn, closeStarted, closeRuns, sweep, closeReturned,
                 disconnected>>

\* ------------------------------------------ listConnections handler
\* index.ts listConnections handler (405-421): an empty list while shutting
\* down, otherwise what MySQLManager.listConnections returns (239-261); the
\* method has no await, so the whole call is one synchronous segment
HandleListConnections(t) ==
  /\ reqLeft' = reqLeft - 1
  /\ FreeTask(t)
  /\ th' = [th EXCEPT ![t] = [Idle EXCEPT !.op = "listConnections", !.pc = "done",
                                          !.res = "ok",
                                          !.list = IF IsShuttingDown THEN {}
                                                   ELSE ListConnections]]
  /\ UNCHANGED <<shuttingDown, mgrNull, keyOK, catalog, store, connections, ent, pools, cache,
                 now, loadPc, imp, nConn, closeStarted, closeRuns, sweep, closeReturned,
                 disconnected>>

\* ------------------------------- listTables, getTableSchema, importTables
Rejected(op) == [Idle EXCEPT !.op = op, !.pc = "done", !.res = "ShuttingDown"]

\* index.ts listTables handler (422-439), listTables and getConnection up to
\* the first await
HandleListTables(t, i) ==
  /\ reqLeft' = reqLeft - 1
  /\ FreeTask(t)
  /\ IF IsShuttingDown
     THEN /\ th' = [th EXCEPT ![t] = Rejected("listTables")]
          /\ UNCHANGED <<pools, ent, imp>>
     ELSE Commit(GetConnection(St, t, [Idle EXCEPT !.op = "listTables", !.id = i,
                                                   !.t0 = now]))
  /\ UNCHANGED <<shuttingDown, mgrNull, keyOK, catalog, store, connections, cache, now, loadPc,
                 nConn, closeStarted, closeRuns, sweep, closeReturned, disconnected>>

\* index.ts getTableSchema handler (477-494) and getTableSchema up to the
\* first await
HandleGetTableSchema(t, i, tb) ==
  /\ reqLeft' = reqLeft - 1
  /\ FreeTask(t)
  /\ IF IsShuttingDown
     THEN /\ th' = [th EXCEPT ![t] = Rejected("getTableSchema")]
          /\ UNCHANGED <<pools, ent, imp>>
     ELSE Commit(GetTableSchema(St, t, [Idle EXCEPT !.op = "getTableSchema", !.id = i,
                                                    !.tbl = tb, !.t0 = now]))
  /\ UNCHANGED <<shuttingDown, mgrNull, keyOK, catalog, store, connections, cache, now, loadPc,
                 nConn, closeStarted, closeRuns, sweep, closeReturned, disconnected>>

\* index.ts importTables handler (458-476) and importTables up to the first
\* await; one importTables call is in progress at a time
HandleImportTables(t, i, names) ==
  /\ reqLeft' = reqLeft - 1
  /\ FreeTask(t)
  /\ IF IsShuttingDown
     THEN /\ th' = [th EXCEPT ![t] = Rejected("importTables")]
          /\ UNCHANGED <<pools, ent, imp>>
     ELSE /\ imp.st = "idle"
          /\ LET st0 == [St EXCEPT
                           !.th[t] = [Idle EXCEPT !.op = "importTables", !.pc = "batch",
                                                  !.id = i],
                           !.imp = [NoImport EXCEPT !.st = "running", !.task = t,
                                                    !.id = i, !.names = names]]
                 n == Len(names)
             IN IF n = 0 THEN Commit(ImportFinish(st0))
                ELSE Commit(Advance(LaunchFrom(st0, 1, BatchEnd(1, n))))
  /\ UNCHANGED <<shuttingDown, mgrNull, keyOK, catalog, store, connections, cache, now, loadPc,
                 nConn, closeStarted, closeRuns, sweep, closeReturned, disconnected>>

\* a pool stored before it has been validated (faulty variant of
\* PoolValidateDone)
PoolValidateDoneStoresFirst(x, ok) ==
  /\ UNCHANGED reqLeft
  /\ th[x].pc = "validate"
  /\ LET r  == th[x]
         s1 == [St EXCEPT !.ent[<<r.id, r.obj>>].connection = r.pool]
     IN
     IF ok
     THEN Commit(Advance(Proceed([s1 EXCEPT !.ent[<<r.id, r.obj>>].lastUsed = now],
                                 x, [r EXCEPT !.gcRes = "ok"])))
     ELSE Commit(Advance(Fail(s1, x, [r EXCEPT !.gcRes = "PoolCreationFailed"],
                              "PoolCreationFailed")))
  /\ UNCHANGED <<shuttingDown, mgrNull, keyOK, catalog, store, connections, cache, now, loadPc,
                 nConn, closeStarted, closeRuns, sweep, closeReturned, disconnected>>

\* a validation that keeps the handle an overlapping call has stored and
\* returns it (faulty variant of PoolValidateDone)
PoolValidateDoneKeepsFirst(x, ok) ==
  /\ UNCHANGED reqLeft
  /\ th[x].pc = "validate"
  /\ LET r    == th[x]
         held == ent[<<r.id, r.obj>>].connection
         got  == IF held # 0 THEN held ELSE r.pool
     IN
     IF ok
     THEN Commit(Advance(Proceed(
            [St EXCEPT !.ent[<<r.id, r.obj>>].connection = got,
                       !.ent[<<r.id, r.obj>>].lastUsed = now],
            x, [r EXCEPT !.gcRes = "ok", !.pool = got])))
     ELSE Commit(Advance(Fail(St, x, [r EXCEPT !.gcRes = "PoolCreationFailed"],
                              "PoolCreationFailed")))
  /\ UNCHANGED <<shuttingDown, mgrNull, keyOK, catalog, store, connections, cache, now, loadPc,
                 nConn, closeStarted, closeRuns, sweep, closeReturned, disconnected>>

\* a validation that stores the handle without stamping lastUsed (faulty
\* variant of PoolValidateDone)
PoolValidateDoneNoStamp(x, ok) ==
  /\ UNCHANGED reqLeft
  /\ th[x].pc = "validate"
  /\ LET r == th[x] IN
     IF ok
     THEN Commit(Advance(Proceed(
            [St EXCEPT !.ent[<<r.id, r.obj>>].connection = r.pool],
            x, [r EXCEPT !.gcRes = "ok"])))
     ELSE Commit(Advance(Fail(St, x, [r EXCEPT !.gcRes = "PoolCreationFailed"],
                              "PoolCreationFailed")))
  /\ UNCHANGED <<shuttingDown, mgrNull, keyOK, catalog, store, connections, cache, now, loadPc,
                 nConn, closeStarted, closeRuns, sweep, closeReturned, disconnected>>

\* getConnection after `await pool.getConnection()` (lines 292-309)
PoolValidateDone(x, ok) ==
  /\ UNCHANGED reqLeft
  /\ th[x].pc = "validate"
  /\ LET r == th[x] IN
     IF ok
     THEN Commit(Advance(Proceed(
            [St EXCEPT !.ent[<<r.id, r.obj>>].connection = r.pool,
                       !.ent[<<r.id, r.obj>>].lastUsed = now],
            x, [r EXCEPT !.gcRes = "ok"])))
     ELSE Commit(Advance(Fail(St, x, [r EXCEPT !.gcRes = "PoolCreationFailed"],
                              "PoolCreationFailed")))
  /\ UNCHANGED <<shuttingDown, mgrNull, keyOK, catalog, store, connections, cache, now, loadPc,
                 nConn, closeStarted, closeRuns, sweep, closeReturned, disconnected>>

\* listTables after `await pool.query('SHOW TABLES')` (lines 318-335)
QueryDone(t, ok) ==
  /\ UNCHANGED reqLeft
  /\ th[t].pc = "query"
  /\ th' = [th EXCEPT ![t].pc = "done", ![t].res = IF ok THEN "ok" ELSE "QueryFailed"]
  /\ UNCHANGED <<shuttingDown, mgrNull, keyOK, catalog, store, connections, ent, pools, cache,
                 now, loadPc, imp, nConn, closeStarted, closeRuns, sweep, closeReturned,
                 disconnected>>

\* getTableSchema after `await pool.execute('DESCRIBE ??')` (lines 650-651)
DescribeDone(x, ok) ==
  /\ UNCHANGED reqLeft
  /\ th[x].pc = "describe"
  /\ IF ok
     THEN /\ th' = [th EXCEPT ![x].pc = "showindex", ![x].nIdx = @ + 1]
          /\ UNCHANGED <<pools, ent, imp>>
     ELSE Commit(Advance(Fail(St, x, th[x], "SchemaFetchFailed")))
  /\ UNCHANGED <<shuttingDown, mgrNull, keyOK, catalog, store, connections, cache, now, loadPc,
                 nConn, closeStarted, closeRuns, sweep, closeReturned, disconnected>>

\* a cache write that keeps an entry stamped later than the call's own capture
\* time (faulty variant of ShowIndexDone)
ShowIndexDoneKeepsNewer(x, ok) ==
  /\ UNCHANGED reqLeft
  /\ th[x].pc = "showindex"
  /\ IF ok
     THEN /\ cache' = [cache EXCEPT ![<<th[x].id, th[x].tbl>>] =
                                       IF @ > th[x].t0 THEN @ ELSE th[x].t0]
          /\ Commit(SchemaReady(St, x, th[x]))
     ELSE /\ Commit(Advance(Fail(St, x, th[x], "SchemaFetchFailed")))
          /\ UNCHANGED cache
  /\ UNCHANGED <<shuttingDown, mgrNull, keyOK, catalog, store, connections, now, loadPc,
                 nConn, closeStarted, closeRuns, sweep, closeReturned, disconnected>>

\* getTableSchema after `await pool.execute('SHOW INDEX FROM ??')` (651-667)
ShowIndexDone(x, ok) ==
  /\ UNCHANGED reqLeft
  /\ th[x].pc = "showindex"
  /\ IF ok
     THEN /\ cache' = [cache EXCEPT ![<<th[x].id, th[x].tbl>>] = th[x].t0]
          /\ Commit(SchemaReady(St, x, th[x]))
     ELSE /\ Commit(Advance(Fail(St, x, th[x], "SchemaFetchFailed")))
          /\ UNCHANGED cache
  /\ UNCHANGED <<shuttingDown, mgrNull, keyOK, catalog, store, connections, now, loadPc,
                 nConn, closeStarted, closeRuns, sweep, closeReturned, disconnected>>

\* importTable after `await collectionsRepo.create` (lines 402-447), and the
\* end of the map callback
CollectionCreateDone(x, ok) ==
  /\ UNCHANGED reqLeft
  /\ th[x].pc = "create"
  /\ Commit(Advance(ChildEnd(St, x, th[x], ok,
                             IF ok THEN "-" ELSE "CollectionWriteFailed")))
  /\ UNCHANGED <<shuttingDown, mgrNull, keyOK, catalog, store, connections, cache, now, loadPc,
                 nConn, closeStarted, closeRuns, sweep, closeReturned, disconnected>>

\* the handler has written ctx.body and returned
Respond(t) ==
  /\ UNCHANGED reqLeft
  /\ t \in Tasks
  /\ th[t].pc = "done"
  /\ IF th[t].op = "importTables" /\ imp.task = t
     THEN /\ th' = [x \in Threads |-> IF x = t \/ x \in Children THEN Idle ELSE th[x]]
          /\ imp' = NoImport
     ELSE /\ th' = [th EXCEPT ![t] = Idle]
          /\ UNCHANGED imp
  /\ UNCHANGED <<shuttingDown, mgrNull, keyOK, catalog, store, connections, ent, pools, cache,
                 now, loadPc, nConn, closeStarted, closeRuns, sweep, closeReturned,
                 disconnected>>

\* ------------------------------------------------------- shutdown
\* MySQLManager.closeAllConnections up to its await (lines 523-559), entered
\* through MySQLConnectorPlugin.closeAllConnections (index.ts 62-71); byRemove
\* says that the caller is remove, which clears mysqlManager when the call
\* has returned
CloseAllStart(byRemove) ==
  IF mgrNull
  THEN UNCHANGED <<connections, pools, closeStarted, closeRuns, closeReturned>>
  ELSE
    LET closing == {ent[<<i, connections[i]>>].connection :
                      i \in {j \in Ids : connections[j] # "none"}} \ {0}
    IN /\ closeStarted < MaxCloseRuns
       /\ closeStarted' = closeStarted + 1
       /\ pools' = [p \in Pools |-> IF p \in closing /\ pools[p].st = "open"
                                    THEN [pools[p] EXCEPT !.st = "ending"]
                                    ELSE pools[p]]
       /\ connections' = [i \in Ids |-> "none"]
       /\ IF closing = {}
          THEN /\ closeReturned' = TRUE
               /\ closeRuns' = [closeRuns EXCEPT ![closeStarted + 1] =
                                  [st |-> "returned", pools |-> {}, nulls |-> FALSE]]
          ELSE /\ closeRuns' = [closeRuns EXCEPT ![closeStarted + 1] =
                                  [st |-> "waiting", pools |-> closing, nulls |-> byRemove]]
               /\ UNCHANGED closeReturned

\* beforeStopHandler, sigintHandler, sigtermHandler (index.ts 140-168)
StopSignal ==
  /\ UNCHANGED reqLeft
  /\ ~shuttingDown
  /\ shuttingDown' = TRUE
  /\ CloseAllStart(FALSE)
  /\ UNCHANGED <<mgrNull, keyOK, catalog, store, ent, cache, now, loadPc, th, imp, nConn,
                 sweep, disconnected>>

\* beforeRemove (index.ts 201-207) and beforeUnload (639-651)
BeforeRemoveOrUnload ==
  /\ UNCHANGED reqLeft
  /\ shuttingDown' = TRUE
  /\ CloseAllStart(FALSE)
  /\ UNCHANGED <<mgrNull, keyOK, catalog, store, ent, cache, now, loadPc, th, imp, nConn,
                 sweep, disconnected>>

\* remove (index.ts 210-259), up to `this.mysqlManager = null` when
\* closeAllConnections has nothing to await
Remove ==
  /\ UNCHANGED reqLeft
  /\ ~mgrNull
  /\ shuttingDown' = TRUE
  /\ IF ~shuttingDown THEN CloseAllStart(TRUE)
     ELSE UNCHANGED <<connections, pools, closeStarted, closeRuns, closeReturned>>
  /\ mgrNull' = (shuttingDown \/ closeRuns'[closeStarted'].st = "returned")
  /\ UNCHANGED <<keyOK, catalog, store, ent, cache, now, loadPc, th, imp, nConn, sweep,
                 disconnected>>

\* a beforeLoad that re-initialises the flag (faulty variant of BeforeLoad)
BeforeLoadResetsFlag ==
  /\ shuttingDown' = FALSE
  /\ UNCHANGED <<mgrNull, keyOK, catalog, store, connections, ent, pools, cache, now, loadPc,
                 th, imp, nConn, closeStarted, closeRuns, sweep, closeReturned,
                 disconnected, reqLeft>>

\* beforeLoad (index.ts 123-135): initialized is true after the first call,
\* so every later call returns at once
BeforeLoad == UNCHANGED vars

\* a repeated load (index.ts 262-336): mysqlManager is replaced by a new
\* MySQLManager; the resources are registered once (pluginResourceRegistered),
\* so the handlers keep the manager they captured
Load ==
  /\ ~mgrNull
  /\ mgrNull' = TRUE
  /\ UNCHANGED <<shuttingDown, keyOK, catalog, store, connections, ent, pools, cache, now,
                 loadPc, th, imp, nConn, closeStarted, closeRuns, sweep, closeReturned,
                 disconnected, reqLeft>>

\* a race without the timeout branch (faulty variant of CloseSettled)
CloseSettledNoTimeout(ps, timedOut) ==
  \A p \in ps : pools[p].st \in {"closed", "endfailed"}

\* Promise.race([pool.end().catch(...), timeout of 5 s]) for every awaited
\* pool (lines 537-543): settled when the timers have fired or every end()
\* has resolved or rejected
CloseSettled(ps, timedOut) ==
  timedOut \/ \A p \in ps : pools[p].st \in {"closed", "endfailed"}

\* closeAllConnections after `await Promise.allSettled` (lines 556-565)
CloseAllReturn(n) ==
  /\ UNCHANGED reqLeft
  /\ closeRuns' = [closeRuns EXCEPT ![n] = [st |-> "returned", pools |-> {},
                                             nulls |-> FALSE]]
  /\ connections' = [i \in Ids |-> "none"]
  /\ closeReturned' = TRUE
  /\ mgrNull' = (mgrNull \/ closeRuns[n].nulls)
  /\ UNCHANGED <<shuttingDown, keyOK, catalog, store, ent, pools, cache, now, loadPc,
                 th, imp, nConn, closeStarted, sweep, disconnected>>

\* every awaited pool.end() has settled
CloseAllDone(n) ==
  /\ closeRuns[n].st = "waiting"
  /\ CloseSettled(closeRuns[n].pools, FALSE)
  /\ CloseAllReturn(n)

\* the 5-second timers of the run fire
CloseAllTimeout(n) ==
  /\ closeRuns[n].st = "waiting"
  /\ CloseSettled(closeRuns[n].pools, TRUE)
  /\ CloseAllReturn(n)

\* ------------------------------------------------------ idle reaper
\* cleanupIdleConnections: connectionInfo.connection && connectionInfo.lastUsed
\* && (now - connectionInfo.lastUsed) > IDLE_TIMEOUT  (lines 607-608)
IdleExpired(i, t) ==
  /\ connections[i] # "none"
  /\ LET e == ent[<<i, connections[i]>>]
     IN /\ e.connection # 0
        /\ e.lastUsed # -1
        /\ (t - e.lastUsed) * TickMs > IDLE_TIMEOUT

\* the for loop over this.connections.entries() from the entry after `last`
\* up to the next `await pool.end()` or to the end of the map (lines 606-618)
SweepFrom(t, last) ==
  LET c == {i \in Ids : i > last /\ IdleExpired(i, t)} IN
  IF c = {}
  THEN /\ sweep' = NoSweep
       /\ UNCHANGED pools
  ELSE LET i == CHOOSE j \in c : \A j2 \in c : j <= j2
           o == connections[i]
           p == ent[<<i, o>>].connection
       IN /\ sweep' = [st |-> "end", t0 |-> t, id |-> i, obj |-> o, pool |-> p]
          /\ pools' = EndRequested(pools, p)

\* cleanupIdleConnections is called (lines 599-606)
SweepStart ==
  /\ sweep.st = "idle"
  /\ reqLeft > 0
  /\ reqLeft' = reqLeft - 1
  /\ SweepFrom(now, 0)
  /\ UNCHANGED <<shuttingDown, mgrNull, keyOK, catalog, store, connections, ent, cache, now,
                 loadPc, th, imp, nConn, closeStarted, closeRuns, closeReturned,
                 disconnected>>

\* `await pool.end()` of the sweep has settled (lines 611-616): the handle
\* reference is cleared when it resolved, and the loop goes on
SweepEndDone ==
  /\ UNCHANGED reqLeft
  /\ sweep.st = "end"
  /\ pools[sweep.pool].st \in {"closed", "endfailed"}
  /\ ent' = IF pools[sweep.pool].st = "closed"
            THEN [ent EXCEPT ![<<sweep.id, sweep.obj>>].connection = 0]
            ELSE ent
  /\ SweepFrom(sweep.t0, sweep.id)
  /\ UNCHANGED <<shuttingDown, mgrNull, keyOK, catalog, store, connections, cache, now,
                 loadPc, th, imp, nConn, closeStarted, closeRuns, closeReturned,
                 disconnected>>

\* the time of one cleanup interval passes
IntervalElapses ==
  /\ UNCHANGED reqLeft
  /\ now + CLEANUP_INTERVAL \div TickMs <= MaxIntervals * (CLEANUP_INTERVAL \div TickMs)
  /\ now' = now + CLEANUP_INTERVAL \div TickMs
  /\ UNCHANGED <<shuttingDown, mgrNull, keyOK, catalog, store, connections, ent, pools, cache,
                 loadPc, th, imp, nConn, closeStarted, closeRuns, sweep, closeReturned,
                 disconnected>>

\* time passes
Tick ==
  /\ UNCHANGED reqLeft
  /\ now < MaxTicks
  /\ now' = now + 1
  /\ UNCHANGED <<shuttingDown, mgrNull, keyOK, catalog, store, connections, ent, pools, cache,
                 loadPc, th, imp, nConn, closeStarted, closeRuns, sweep, closeReturned,
                 disconnected>>

\* ------------------------------------------------- specifications
\* Spec: the connection lifecycle and the shutdown coordinator; the imports of
\* importTables run in SpecImport
Next ==
  \/ \E ok \in BOOLEAN : LoadDone(ok)
  \/ \E t \in Tasks, p \in Passwords : HandleConnect(t, p)
  \/ \E t \in Tasks, out \in {ProbeOk} \cup PlainErrors : ConnectProbeDone(t, out)
  \/ \E t \in Tasks, ok \in BOOLEAN : ConnectCreateDone(t, ok)
  \/ \E t \in Tasks, i \in Ids : HandleDisconnect(t, i)
  \/ \E t \in Tasks : DisconnectEndDone(t)
  \/ \E t \in Tasks, ok \in BOOLEAN : DisconnectDestroyDone(t, ok)
  \/ \E p \in Pools, ok \in BOOLEAN : PoolEndSettle(p, ok)
  \/ \E t \in Tasks, i \in Ids : HandleListTables(t, i)
  \/ \E t \in Tasks, i \in Ids, names \in ShortNameSeqs : HandleImportTables(t, i, names)
  \/ \E x \in Tasks, ok \in BOOLEAN : PoolValidateDone(x, ok)
  \/ \E t \in Tasks, ok \in BOOLEAN : QueryDone(t, ok)
  \/ \E t \in Tasks : Respond(t)
  \/ StopSignal
  \/ BeforeRemoveOrUnload
  \/ Remove
  \/ \E n \in 1..MaxCloseRuns : CloseAllDone(n)
  \/ \E n \in 1..MaxCloseRuns : CloseAllTimeout(n)

Spec == Init /\ [][Next]_vars

\* SpecImport: importTables with full table lists, racing with shutdown
NextImport ==
  \/ \E ok \in BOOLEAN : LoadDone(ok)
  \/ \E t \in Tasks, i \in Ids, names \in NameSeqs : HandleImportTables(t, i, names)
  \/ \E x \in Children, ok \in BOOLEAN : PoolValidateDone(x, ok)
  \/ \E x \in Children, ok \in BOOLEAN : DescribeDone(x, ok)
  \/ \E x \in Children, ok \in BOOLEAN : ShowIndexDone(x, ok)
  \/ \E x \in Children, ok \in BOOLEAN : CollectionCreateDone(x, ok)
  \/ \E p \in Pools, ok \in BOOLEAN : PoolEndSettle(p, ok)
  \/ \E t \in Tasks : Respond(t)
  \/ StopSignal
  \/ \E n \in 1..MaxCloseRuns : CloseAllDone(n)
  \/ \E n \in 1..MaxCloseRuns : CloseAllTimeout(n)

SpecImport == InitImport /\ [][NextImport]_vars

\* SpecCache: getTableSchema and its cache as time passes
NextCache ==
  \/ \E ok \in BOOLEAN : LoadDone(ok)
  \/ \E t \in Tasks, i \in Ids, tb \in Tables : HandleGetTableSchema(t, i, tb)
  \/ \E t \in Tasks, ok \in BOOLEAN : PoolValidateDone(t, ok)
  \/ \E t \in Tasks, ok \in BOOLEAN : DescribeDone(t, ok)
  \/ \E t \in Tasks, ok \in BOOLEAN : ShowIndexDone(t, ok)
  \/ \E t \in Tasks : Respond(t)
  \/ Tick

SpecCache == Init /\ [][NextCache]_vars

\* SpecStale: getTableSchema and its cache racing with disconnect
NextStale ==
  \/ \E ok \in BOOLEAN : LoadDone(ok)
  \/ \E t \in Tasks, i \in Ids, tb \in Tables : HandleGetTableSchema(t, i, tb)
  \/ \E t \in Tasks, ok \in BOOLEAN : PoolValidateDone(t, ok)
  \/ \E t \in Tasks, ok \in BOOLEAN : DescribeDone(t, ok)
  \/ \E t \in Tasks, ok \in BOOLEAN : ShowIndexDone(t, ok)
  \/ \E t \in Tasks, i \in Ids : HandleDisconnect(t, i)
  \/ \E t \in Tasks : DisconnectEndDone(t)
  \/ \E t \in Tasks, ok \in BOOLEAN : DisconnectDestroyDone(t, ok)
  \/ \E p \in Pools, ok \in BOOLEAN : PoolEndSettle(p, ok)
  \/ \E t \in Tasks : Respond(t)

SpecStale == Init /\ [][NextStale]_vars

\* SpecShutdown: the shutdown coordinator with pools that may never settle;
\* a timer set by setTimeout(resolve, 5000) eventually fires
NextShutdown ==
  \/ \E ok \in BOOLEAN : LoadDone(ok)
  \/ \E t \in Tasks, i \in Ids : HandleListTables(t, i)
  \/ \E t \in Tasks, ok \in BOOLEAN : PoolValidateDone(t, ok)
  \/ \E t \in Tasks, ok \in BOOLEAN : QueryDone(t, ok)
  \/ \E t \in Tasks : HandleListConnections(t)
  \/ \E p \in Pools, ok \in BOOLEAN : PoolEndSettle(p, ok)
  \/ \E t \in Tasks : Respond(t)
  \/ StopSignal
  \/ BeforeRemoveOrUnload
  \/ Remove
  \/ BeforeLoad
  \/ Load
  \/ \E n \in 1..MaxCloseRuns : CloseAllDone(n)
  \/ \E n \in 1..MaxCloseRuns : CloseAllTimeout(n)

SpecShutdown ==
  /\ Init
  /\ [][NextShutdown]_vars
  /\ \A n \in 1..MaxCloseRuns : WF_vars(CloseAllTimeout(n))

\* SpecIdle: handles left unused while time passes; nothing in the program
\* calls scheduleConnectionCleanup, so no sweep runs
NextIdle ==
  \/ \E ok \in BOOLEAN : LoadDone(ok)
  \/ \E t \in Tasks, i \in Ids : HandleListTables(t, i)
  \/ \E t \in Tasks, ok \in BOOLEAN : PoolValidateDone(t, ok)
  \/ \E t \in Tasks, ok \in BOOLEAN : QueryDone(t, ok)
  \/ \E t \in Tasks : Respond(t)
  \/ IntervalElapses

SpecIdle == InitReaper /\ [][NextIdle]_vars

\* SpecReaper: cleanupIdleConnections called at arbitrary moments, racing with
\* one listTables handler and with shutdown
NextReaper ==
  \/ \E ok \in BOOLEAN : LoadDone(ok)
  \/ \E i \in Ids : HandleListTables(1, i)
  \/ \E ok \in BOOLEAN : PoolValidateDone(1, ok)
  \/ \E ok \in BOOLEAN : QueryDone(1, ok)
  \/ Respond(1)
  \/ \E p \in Pools, ok \in BOOLEAN : PoolEndSettle(p, ok)
  \/ IntervalElapses
  \/ SweepStart
  \/ SweepEndDone
  \/ Load
  \/ StopSignal
  \/ \E n \in 1..MaxCloseRuns : CloseAllDone(n)
  \/ \E n \in 1..MaxCloseRuns : CloseAllTimeout(n)

SpecReaper == InitReaper /\ [][NextReaper]_vars

\* SpecAcquire: connect and overlapping listTables calls acquiring pools, with
\* no shutdown and no disconnect in the way
NextAcquire ==
  \/ \E ok \in BOOLEAN : LoadDone(ok)
  \/ \E t \in Tasks, p \in Passwords : HandleConnect(t, p)
  \/ \E t \in Tasks, out \in {ProbeOk} \cup Errors : ConnectProbeDone(t, out)
  \/ \E t \in Tasks, ok \in BOOLEAN : ConnectCreateDone(t, ok)
  \/ \E t \in Tasks, i \in Ids : HandleListTables(t, i)
  \/ \E t \in Tasks, ok \in BOOLEAN : PoolValidateDone(t, ok)
  \/ \E t \in Tasks, ok \in BOOLEAN : QueryDone(t, ok)
  \/ \E t \in Tasks : HandleListConnections(t)
  \/ \E t \in Tasks : Respond(t)

SpecAcquire == Init /\ [][NextAcquire]_vars

\* tableNames arrays that name each table at most once
TableSeqs == {s \in NameSeqs : Len(s) <= Cardinality(Tables)}

\* SpecTypes: one importTables call against servers whose columns have any of
\* the declared types
NextTypes ==
  \/ \E ok \in BOOLEAN : LoadDone(ok)
  \/ \E t \in Tasks, i \in Ids, names \in TableSeqs : HandleImportTables(t, i, names)
  \/ \E x \in Children, ok \in BOOLEAN : PoolValidateDone(x, ok)
  \/ \E x \in Children, ok \in BOOLEAN : DescribeDone(x, ok)
  \/ \E x \in Children, ok \in BOOLEAN : ShowIndexDone(x, ok)
  \/ \E x \in Children, ok \in BOOLEAN : CollectionCreateDone(x, ok)
  \/ \E t \in Tasks : Respond(t)

SpecTypes == InitTypes /\ [][NextTypes]_vars

\* ------------------------------------------------------- properties
InFlightPcs == {"validate", "describe", "showindex", "create"}

\* C1: once the shutdown flag is set, a connect, listTables or importTables
\* request that starts afterwards ends in the same step with ShuttingDown:
\* no probe, no pool, no query, no callback of importTables is started and
\* the registry and the Credential Store are untouched.
C1_RejectedWhileDraining ==
  [][\A t \in Tasks :
       (/\ shuttingDown
        /\ th[t].pc = "idle"
        /\ th'[t].pc # "idle"
        /\ th'[t].op \in {"connect", "listTables", "importTables"})
       => /\ th'[t].pc = "done"
          /\ th'[t].res = "ShuttingDown"
          /\ th'[t].pool = 0
          /\ \A x \in Threads \ {t} : th'[x] = th[x]
          /\ pools' = pools /\ ent' = ent /\ imp' = imp
          /\ connections' = connections /\ store' = store]_vars

C1_Witness ==
  /\ shuttingDown
  /\ \E t, u \in Tasks :
       /\ th[t].op = "connect" /\ th[t].res = "ShuttingDown"
       /\ th[u].op \in {"listTables", "importTables"} /\ th[u].res = "ShuttingDown"

\* C2: a getConnection call that executes after draining has begun, also one
\* made by an operation admitted before, fails with ShuttingDown (and so
\* constructs no pool and stores no handle).
C2_GetConnectionRefusesWhileDraining ==
  \A x \in Threads : th[x].gcDrain => th[x].gcRes = "ShuttingDown"

\* C3: when closeAllConnections has returned, every pool that was constructed
\* and not already closed has had its pool.end() requested.
C3_NoDanglingPools ==
  closeReturned => \A p \in Pools : pools[p].st # "open"

\* C4: a getConnection on an entry inserted by connect builds its pool with
\* exactly the plaintext password that was supplied to connect.
C4_PoolUsesSuppliedPassword ==
  \A x \in Threads :
    (th[x].obj = "connect" /\ th[x].gcRes # "-")
    => /\ th[x].pool # 0
       /\ pools[th[x].pool].pw = ent[<<th[x].id, "connect">>].password

\* C5: when connect succeeds the returned id is non-empty, listConnections
\* contains that id with status disconnected, and the step has constructed
\* no pool and stored no handle in the entry.
C5_ConnectListsDisconnected ==
  [][\A t \in Tasks :
       (/\ th[t].op = "connect" /\ th[t].pc = "create"
        /\ th'[t].pc = "done" /\ th'[t].res = "ok")
       => /\ th'[t].id \in Ids
          /\ [id |-> th'[t].id, status |-> "disconnected"] \in ListConnections'
          /\ \A e \in ListConnections' : e.id = th'[t].id => e.status = "disconnected"
          /\ ent'[<<th'[t].id, "connect">>].connection = 0
          /\ pools' = pools]_vars

C5_Witness ==
  \E t \in Tasks :
    /\ th[t].op = "connect" /\ th[t].pc = "done" /\ th[t].res = "ok"
    /\ [id |-> th[t].id, status |-> "disconnected"] \in ListConnections

\* C6: for a fixed (id, table), a getTableSchema call that starts while the
\* cached entry is younger than 10 minutes returns the cached schema in the
\* same step, with no pool and no DESCRIBE / SHOW INDEX; a call that starts
\* when the entry has expired is not served from the cache, and a call that
\* fetches the schema has issued exactly one DESCRIBE and one SHOW INDEX and
\* stamps the entry with the time at which it started.
C6_SchemaCacheWindow ==
  [][\A t \in Tasks :
       LET key == <<th'[t].id, th'[t].tbl>>
           starts == /\ th[t].pc = "idle" /\ th'[t].pc # "idle"
                     /\ th'[t].op = "getTableSchema"
       IN
       /\ (starts /\ cache[key] # -1 /\ (now - cache[key]) * 300000 < 600000)
          => /\ th'[t].pc = "done" /\ th'[t].res = "schema"
             /\ th'[t].nDesc = 0 /\ th'[t].nIdx = 0 /\ th'[t].pool = 0
             /\ pools' = pools /\ ent' = ent /\ cache' = cache
       /\ (starts /\ cache[key] # -1 /\ (now - cache[key]) * 300000 >= 600000)
          => /\ ~th'[t].hit
             /\ th'[t].res # "schema"
       /\ (/\ th[t].op = "getTableSchema" /\ th[t].pc = "showindex"
           /\ th'[t].pc = "done" /\ th'[t].res = "schema")
          => /\ th'[t].nDesc = 1 /\ th'[t].nIdx = 1
             /\ cache'[<<th[t].id, th[t].tbl>>] = th[t].t0
             /\ \A k \in (Ids \X Tables) \ {<<th[t].id, th[t].tbl>>} :
                  cache'[k] = cache[k]]_vars

\* a refresh after expiry has completed and a later call has hit the cache
C6_Witness ==
  \E t, u \in Tasks :
    /\ th[t].op = "getTableSchema" /\ th[t].pc = "done" /\ th[t].res = "schema"
    /\ th[t].stale /\ ~th[t].hit /\ th[t].nDesc = 1 /\ th[t].nIdx = 1
    /\ cache[<<th[t].id, th[t].tbl>>] = th[t].t0
    /\ th[u].op = "getTableSchema" /\ th[u].pc = "done" /\ th[u].hit
    /\ th[u].id = th[t].id /\ th[u].tbl = th[t].tbl

\* C7: when importTables returns, every requested table has been attempted
\* exactly once and is recorded exactly once, in successful or in failed, so
\* |successful| + |failed| = |tableNames| whatever failed.
C7_EveryTableOnce ==
  imp.st = "done" =>
    LET n == Len(imp.names)
        recs == imp.successful \o imp.failed
    IN /\ Len(imp.successful) + Len(imp.failed) = n
       /\ \A k \in 1..n :
            /\ imp.attempts[k] = 1
            /\ Cardinality({j \in 1..Len(recs) : recs[j].k = k}) = 1
            /\ \A j \in 1..Len(recs) : recs[j].k = k => recs[j].tableName = imp.names[k]

\* a failure in the first chunk, and the table of the second chunk imported
C7_Witness ==
  /\ imp.st = "done"
  /\ Len(imp.names) = 4
  /\ \E j \in 1..Len(imp.failed) : imp.failed[j].k <= 3
  /\ \E j \in 1..Len(imp.successful) : imp.successful[j].k = 4

\* C8: at most 3 importTable executions are in flight at any instant.
C8_AtMostThreeInFlight ==
  Cardinality({c \in Children : th[c].pc \in InFlightPcs}) <= 3

C8_Witness ==
  /\ Len(imp.names) > 3
  /\ Cardinality({c \in Children : th[c].pc \in InFlightPcs}) = 3

\* C9: after disconnect(id) has returned success, a second disconnect(id)
\* fails with NotFound in its first step, requests no pool close and no
\* record delete, and leaves the registry and the Credential Store unchanged.
C9_SecondDisconnectNotFound ==
  [][\A t \in Tasks :
       (/\ th[t].pc = "idle" /\ th'[t].pc # "idle"
        /\ th'[t].op = "disconnect"
        /\ th'[t].id \in disconnected)
       => /\ th'[t].pc = "done" /\ th'[t].res = "NotFound"
          /\ pools' = pools /\ connections' = connections
          /\ ent' = ent /\ store' = store]_vars

\* C10: when pool.end() fails in disconnect, the record is still deleted,
\* the in-memory entry is still removed and disconnect reports success.
C10_CloseErrorIgnored ==
  \A t \in Tasks :
    (th[t].op = "disconnect" /\ th[t].pc = "done" /\ th[t].endFailed)
    => /\ th[t].res = "ok"
       /\ store[th[t].id] = NoPw
       /\ connections[th[t].id] = "none"

\* C11: whenever disconnect(id) has returned success, the Credential Store
\* holds no record with that id.
C11_SuccessMeansRecordDeleted ==
  \A t \in Tasks :
    (th[t].op = "disconnect" /\ th[t].pc = "done" /\ th[t].res = "ok")
    => store[th[t].id] = NoPw

\* C12: while draining, a disconnect request fails fast with ShuttingDown:
\* it ends in its first step, requests no pool close and starts no record
\* delete.
C12_DisconnectRejectedWhileDraining ==
  [][\A t \in Tasks :
       (/\ shuttingDown
        /\ th[t].pc = "idle" /\ th'[t].pc # "idle"
        /\ th'[t].op = "disconnect")
       => /\ th'[t].pc = "done" /\ th'[t].res = "ShuttingDown"
          /\ pools' = pools /\ store' = store]_vars

\* C13: once draining has begun, a running importTables launches no further
\* chunk: no importTable is started in any step taken while the flag is set.
C13_NoChunkLaunchedWhileDraining ==
  [][shuttingDown =>
       \A k \in 1..MaxTables : imp'.attempts[k] <= imp.attempts[k]]_vars

\* C14: during shutdown no entry disappears from the registry while the close
\* of its handle is still pending: an entry that closeAllConnections removes
\* either holds no handle or holds one whose pool.end() has settled.
C14_EntryRemovedAfterClose ==
  [][closeStarted' # closeStarted =>
       \A i \in Ids :
         (connections[i] # "none" /\ connections'[i] = "none")
         => LET p == ent[<<i, connections[i]>>].connection
            IN p = 0 \/ pools'[p].st \in {"closed", "endfailed"}]_vars

\* C15: closeAllConnections always terminates: every run that awaits closes
\* returns, also when a pool.end() rejects or never settles; and the closes
\* are requested together, in the step in which the run starts, for every
\* handle a registry entry holds.
C15_CloseAllTerminates ==
  /\ \A n \in 1..MaxCloseRuns :
       (closeRuns[n].st = "waiting") ~> (closeRuns[n].st = "returned")
  /\ [][closeStarted' # closeStarted =>
          \A i \in Ids :
            connections[i] # "none" =>
              LET p == ent[<<i, connections[i]>>].connection
              IN p # 0 => pools'[p].st # "open"]_vars

\* a run has returned although a close it requested has not settled
C15_Witness ==
  /\ closeReturned
  /\ \E n \in 1..MaxCloseRuns : closeRuns[n].st = "returned"
  /\ \E p \in Pools : pools[p].st = "ending"

\* C16: the draining state is terminal: once the shutdown flag is true no
\* lifecycle event (beforeLoad, load, beforeStop, SIGINT, SIGTERM,
\* beforeRemove, remove, beforeUnload) and no other step sets it back.
C16_DrainingIsTerminal ==
  [][shuttingDown => shuttingDown']_vars

\* the flag is set and stop, remove or unload and a repeated load have all
\* been delivered
C16_Witness ==
  /\ shuttingDown
  /\ mgrNull
  /\ closeStarted = MaxCloseRuns
  /\ closeReturned

\* C17: whichever of beforeStop, SIGINT, SIGTERM, beforeRemove, remove and
\* beforeUnload fire, the manager's closeAllConnections is started at most
\* once per plugin instance.
C17_CloseAllStartedOnce ==
  closeStarted <= 1

\* a step of cleanupIdleConnections: the sweep starts on a handle, or one of
\* its awaited closes settles and the loop moves on
C18_SweepStep == sweep' # sweep

\* the sweep asks a pool to end only for a handle last used more than
\* IDLE_TIMEOUT ago
C18_OnlyIdleClosed ==
  (C18_SweepStep /\ sweep'.st = "end")
    => /\ ent[<<sweep'.id, sweep'.obj>>].connection = sweep'.pool
       /\ (now - ent[<<sweep'.id, sweep'.obj>>].lastUsed) * TickMs > IDLE_TIMEOUT

\* when the awaited close has settled the handle reference is cleared
C18_ReferenceCleared ==
  (C18_SweepStep /\ sweep.st = "end")
    => ent'[<<sweep.id, sweep.obj>>].connection = 0

\* when the sweep is over no handle that was idle-expired at its start is
\* still referenced
C18_AllIdleClosed ==
  (C18_SweepStep /\ sweep'.st = "idle")
    => \A i \in Ids :
         connections'[i] # "none"
           => LET e == ent'[<<i, connections'[i]>>]
              IN ~(/\ e.connection # 0
                   /\ e.lastUsed # -1
                   /\ (sweep.t0 - e.lastUsed) * TickMs > IDLE_TIMEOUT)

\* entries, their credentials, the other handles and the persisted records
\* are left as they were
C18_FrameKept ==
  C18_SweepStep
    => /\ connections' = connections
       /\ store' = store
       /\ \A e \in DOMAIN ent :
            /\ ent'[e].password = ent[e].password
            /\ ent'[e].lastUsed = ent[e].lastUsed
            /\ (sweep.st = "idle" \/ e # <<sweep.id, sweep.obj>>)
                 => ent'[e].connection = ent[e].connection

\* C18: a sweep of cleanupIdleConnections closes exactly the handles last used
\* more than one hour ago and clears their reference; handles used within the
\* last hour, the in-memory entries and the persisted credential records are
\* left untouched
C18_SweepClosesExactlyIdle ==
  [][/\ C18_OnlyIdleClosed
     /\ C18_ReferenceCleared
     /\ C18_AllIdleClosed
     /\ C18_FrameKept]_vars

\* C19: the reaper sweeps every CLEANUP_INTERVAL, so no registered handle is
\* still open and referenced once it has been unused for longer than
\* IDLE_TIMEOUT plus one full interval
C19_IdleHandleReaped ==
  \A i \in Ids :
    connections[i] # "none"
      => LET e == ent[<<i, connections[i]>>]
         IN (e.connection # 0 /\ e.lastUsed # -1 /\ pools[e.connection].st = "open")
              => (now - e.lastUsed) * TickMs <= IDLE_TIMEOUT + CLEANUP_INTERVAL

\* C20: a call of cleanupIdleConnections made once shutdown has begun asks no
\* pool to end and changes no entry
C20_NoSweepWhileDraining ==
  [][(shuttingDown /\ sweep.st = "idle" /\ sweep' # sweep)
       => (pools' = pools /\ ent' = ent /\ connections' = connections)]_vars

\* C21: a getConnection on an entry that holds a handle returns that handle
\* and constructs no pool; every getConnection that succeeds, by reuse or by
\* building a pool, leaves the entry's lastUsed at the current time and
\* returns the handle the entry holds.
C21_ReuseAndStamp ==
  [][\A t \in Tasks :
       LET e  == <<th'[t].id, th'[t].obj>>
           e0 == <<th'[t].id, connections[th'[t].id]>>
       IN
       /\ (th[t].gcRes # "ok" /\ th'[t].gcRes = "ok")
            => /\ ent'[e].lastUsed = now'
               /\ ent'[e].connection = th'[t].pool
               /\ th'[t].pool # 0
       /\ (/\ th[t].pc = "idle" /\ th'[t].pc # "idle"
           /\ th'[t].op = "listTables" /\ ~shuttingDown
           /\ connections[th'[t].id] # "none"
           /\ ent[e0].connection # 0)
            => /\ th'[t].gcRes = "ok"
               /\ th'[t].pool = ent[e0].connection
               /\ ent'[e0].connection = ent[e0].connection
               /\ pools' = pools]_vars

\* two calls have succeeded on the same entry with the same handle, the later
\* one by reuse, and the stamp is later than the start of the first call
C21_Witness ==
  \E t, u \in Tasks :
    /\ t # u
    /\ th[t].gcRes = "ok" /\ th[u].gcRes = "ok"
    /\ th[t].id = th[u].id /\ th[t].obj = th[u].obj
    /\ th[t].pool = th[u].pool /\ th[t].pool # 0
    /\ th[t].t0 < th[u].t0
    /\ ent[<<th[t].id, th[t].obj>>].connection = th[t].pool
    /\ ent[<<th[t].id, th[t].obj>>].lastUsed = th[u].t0

\* the getConnection of activation t fails in this step
C22_FailsNow(t) ==
  th[t].gcRes # "PoolCreationFailed" /\ th'[t].gcRes = "PoolCreationFailed"

\* C22 as stated: when constructing or validating the pool fails, the call
\* fails with PoolCreationFailed and the registry entry still exists, with no
\* handle and with unchanged credentials.
C22_FailureLeavesNoHandle ==
  [][\A t \in Tasks :
       C22_FailsNow(t)
         => /\ th'[t].pc = "done" /\ th'[t].err = "PoolCreationFailed"
            /\ connections'[th'[t].id] # "none"
            /\ ent'[<<th'[t].id, connections'[th'[t].id]>>].connection = 0
            /\ ent'[<<th'[t].id, th'[t].obj>>].password
                 = ent[<<th'[t].id, th'[t].obj>>].password]_vars

\* C22, amended: the failing call ends with PoolCreationFailed, removes no
\* entry, changes no credentials and stores no handle, so the entry holds no
\* handle unless an overlapping call has stored its own validated pool; the
\* pool that failed is the handle of no entry; and a call that finds the
\* entry without a handle constructs a pool of its own.
C22_FailedCallStoresNothing ==
  [][\A t \in Tasks :
       /\ C22_FailsNow(t)
            => /\ th'[t].pc = "done" /\ th'[t].err = "PoolCreationFailed"
               /\ connections' = connections
               /\ ent' = ent
               /\ store' = store
               /\ \A e \in DOMAIN ent : th'[t].pool # 0 => ent'[e].connection # th'[t].pool
       /\ (/\ th[t].pc = "idle" /\ th'[t].pc = "validate")
            => /\ pools[th'[t].pool].st = "free"
               /\ pools'[th'[t].pool].st = "open"
               /\ \A e \in DOMAIN ent : ent'[e].connection # th'[t].pool]_vars

\* a call has failed validation, the entry is still registered without a
\* handle, and a later call on it is validating a second pool
C22_Witness ==
  \E t, u \in Tasks :
    /\ th[t].gcRes = "PoolCreationFailed" /\ th[t].pool # 0
    /\ th[u].pc = "validate" /\ th[u].id = th[t].id
    /\ th[u].pool # th[t].pool
    /\ connections[th[t].id] # "none"
    /\ ent[<<th[t].id, connections[th[t].id]>>].connection = 0

C24_ClassifiedByCode ==
  \A t \in Tasks :
    (th[t].op = "connect" /\ th[t].pc = "done" /\ th[t].err # "-")
    => /\ th[t].err = "ECONNREFUSED" => th[t].res = "ConnectionRefused"
       /\ th[t].err = "ER_ACCESS_DENIED_ERROR" => th[t].res = "AuthenticationFailed"
       /\ th[t].err = "ER_BAD_DB_ERROR" => th[t].res = "DatabaseNotFound"
       /\ th[t].err = "ETIMEDOUT" => th[t].res = "Timeout"
       /\ th[t].err = "OTHER" => (th[t].res = "ConnectionError" /\ th[t].out = th[t].msg)
       /\ th[t].res # "ConnectionError" => th[t].out = "-"

\* a timeout whose message reads like a refused connection, and an error
\* without a known code whose message reads like a denied login
C24_Witness ==
  \E t, u \in Tasks :
    /\ th[t].op = "connect" /\ th[t].pc = "done"
    /\ th[t].err = "ETIMEDOUT" /\ th[t].msg = "ECONNREFUSED" /\ th[t].res = "Timeout"
    /\ th[u].op = "connect" /\ th[u].pc = "done"
    /\ th[u].err = "OTHER" /\ th[u].msg = "ER_ACCESS_DENIED_ERROR"
    /\ th[u].res = "ConnectionError" /\ th[u].out = "ER_ACCESS_DENIED_ERROR"

SchemaFailures == {"NotFound", "PoolCreationFailed", "SchemaFetchFailed"}

\* C25: when acquiring the pool or one of the two metadata queries fails,
\* getTableSchema does not return normally: it throws, the error its caller
\* sees carries the original failure, and no cache entry is stored.
C25_SchemaFailureSurfaces ==
  [][\A x \in Threads :
       (/\ th'[x].op \in {"getTableSchema", "importTable"}
        /\ th[x].err # th'[x].err
        /\ th'[x].err \in SchemaFailures)
       => /\ th'[x].ret # "undefined"
          /\ th'[x].out = th'[x].err
          /\ cache' = cache]_vars

\* C26: a listConnections call that reaches the manager changes nothing and
\* touches no network: no pool is constructed or closed, no query is started,
\* no entry, lastUsed stamp, record or cache entry changes; the list holds one
\* summary for each registered entry, with status connected exactly for the
\* entries that hold a handle.
C26_ListIsPureRead ==
  [][\A t \in Tasks :
       (/\ th[t].pc = "idle" /\ th'[t].pc # "idle"
        /\ th'[t].op = "listConnections" /\ ~shuttingDown)
       => /\ th'[t].pc = "done" /\ th'[t].res = "ok" /\ th'[t].pool = 0
          /\ pools' = pools /\ ent' = ent /\ connections' = connections
          /\ store' = store /\ cache' = cache
          /\ \A x \in Threads \ {t} : th'[x] = th[x]
          /\ th'[t].list =
               {[id |-> i,
                 status |-> IF ent[<<i, connections[i]>>].connection # 0
                            THEN "connected" ELSE "disconnected"] :
                  i \in {j \in Ids : connections[j] # "none"}}]_vars

\* a list with a connected and a disconnected entry has been returned
C26_Witness ==
  \E t \in Tasks :
    /\ th[t].op = "listConnections" /\ th[t].pc = "done"
    /\ \E a, b \in th[t].list : a.status = "connected" /\ b.status = "disconnected"

C28_RegistryStaysEmpty ==
  /\ [](closeReturned => \A i \in Ids : connections[i] = "none")
  /\ [][closeReturned =>
          \A e \in DOMAIN ent :
            ent'[e].connection # ent[e].connection => ent'[e].connection = 0]_vars

\* the chunk tableNames[k] falls in: slice(i, i + CONCURRENCY) for i = 0, 3, 6, ...
C29_Chunk(k) == (k - 1) \div 3

\* C29: importTables works through tableNames chunk by chunk: whenever the
\* import of a table has started, the import of every table of an earlier chunk
\* has started and has ended, in success or in failure.
C29_ChunksInOrder ==
  \A j, k \in 1..Len(imp.names) :
    (C29_Chunk(k) < C29_Chunk(j) /\ imp.attempts[j] > 0)
      => (imp.attempts[k] > 0 /\ Terminal(th[ChildOf(k)]))

C29_Witness ==
  /\ imp.st = "running"
  /\ Len(imp.names) = 4
  /\ imp.attempts[4] = 1
  /\ th[ChildOf(4)].pc \in InFlightPcs
  /\ \E k \in 1..3 : th[ChildOf(k)].pc = "failed"
  /\ \E k \in 1..3 : th[ChildOf(k)].pc = "ok"

\* activation u has built a pool of its own, other than p, for entry e
C30_BuiltOwn(u, e, p) ==
  /\ th[u].op = "listTables"
  /\ <<th[u].id, th[u].obj>> = e
  /\ th[u].pool # 0 /\ th[u].pool # p
  /\ (th[u].pc = "validate" \/ th[u].gcRes = "ok")

\* C30: when two getConnection calls overlap on an entry without a handle and
\* each has built a pool, the call whose validation succeeds receives the pool
\* it built and validated, open, and leaves it as the entry's handle, whatever
\* the other call stored before; no other step stores a handle; and once both
\* have succeeded the entry holds one of the two pools.
C30_LastWriterWins ==
  /\ [][\A t, u \in Tasks :
          LET e == <<th[t].id, th[t].obj>> IN
          (/\ t # u
           /\ th[t].pc = "validate" /\ th'[t].gcRes = "ok"
           /\ C30_BuiltOwn(u, e, th[t].pool))
            => /\ th'[t].pool = th[t].pool
               /\ pools'[th[t].pool].st = "open"
               /\ ent'[e].connection = th[t].pool]_vars
  /\ [][\A e \in DOMAIN ent :
          (ent'[e].connection # ent[e].connection /\ ent'[e].connection # 0)
            => \E t \in Tasks :
                 /\ th[t].pc = "validate" /\ th'[t].gcRes = "ok"
                 /\ <<th[t].id, th[t].obj>> = e
                 /\ ent'[e].connection = th[t].pool]_vars
  /\ [](\A t, u \in Tasks :
          (/\ t # u
           /\ th[t].gcRes = "ok" /\ th[u].gcRes = "ok"
           /\ th[t].op = "listTables" /\ th[u].op = "listTables"
           /\ th[t].id = th[u].id /\ th[t].obj = th[u].obj
           /\ th[t].pool # th[u].pool)
            => ent[<<th[t].id, th[t].obj>>].connection \in {th[t].pool, th[u].pool})

\* two overlapping calls have both built and validated a pool, and the entry
\* holds the pool of the second one to finish, which was the first to start
C30_Witness ==
  \E t, u \in Tasks :
    /\ t < u
    /\ th[t].gcRes = "ok" /\ th[u].gcRes = "ok"
    /\ th[t].op = "listTables" /\ th[u].op = "listTables"
    /\ th[t].id = th[u].id /\ th[t].obj = th[u].obj
    /\ th[t].pool # 0 /\ th[u].pool # 0 /\ th[t].pool # th[u].pool
    /\ th[t].pool < th[u].pool
    /\ ent[<<th[t].id, th[t].obj>>].connection = th[t].pool

\* activation u is a getTableSchema call on the key of t that missed the
\* cache and is fetching the schema or has fetched it
C31_OtherMiss(t, u) ==
  /\ t # u
  /\ th[t].op = "getTableSchema" /\ th[u].op = "getTableSchema"
  /\ th[u].id = th[t].id /\ th[u].tbl = th[t].tbl
  /\ ~th[u].hit
  /\ \/ th[u].pc \in {"validate", "describe", "showindex"}
     \/ th[u].pc = "done" /\ th[u].ret = "schema"

\* C31: when two getTableSchema calls for one (id, table) overlap on a cache
\* miss, the call whose SHOW INDEX succeeds completes with a schema and leaves
\* the entry of the key stamped with its own capture time, whatever the other
\* call wrote before, and changes the entry of no other key; once both have
\* completed the entry of the key is the one written by one of the two.
C31_LastSchemaWriteWins ==
  /\ [][\A t, u \in Tasks :
          (/\ C31_OtherMiss(t, u)
           /\ th[t].pc = "showindex" /\ th'[t].pc = "done" /\ th'[t].err = "-")
            => /\ th'[t].res = "schema" /\ th'[t].ret = "schema"
               /\ cache'[<<th[t].id, th[t].tbl>>] = th[t].t0
               /\ \A k \in DOMAIN cache :
                    k # <<th[t].id, th[t].tbl>> => cache'[k] = cache[k]]_vars
  /\ [](\A t, u \in Tasks :
          (/\ C31_OtherMiss(t, u)
           /\ ~th[t].hit /\ th[t].pc = "done" /\ th[t].ret = "schema"
           /\ th[u].pc = "done")
            => cache[<<th[t].id, th[t].tbl>>] \in {th[t].t0, th[u].t0})

\* t started before u and completed after it: the entry carries the capture
\* time of t, the older of the two
C31_Witness ==
  \E t, u \in Tasks :
    /\ C31_OtherMiss(t, u)
    /\ ~th[t].hit /\ th[t].pc = "done" /\ th[t].ret = "schema"
    /\ th[u].pc = "done"
    /\ th[t].t0 < th[u].t0
    /\ cache[<<th[t].id, th[t].tbl>>] = th[t].t0

\* disconnect t removes the in-memory entry of its id in this step
C32_Removes(t) ==
  /\ th[t].op = "disconnect" /\ th[t].pc \in {"end", "destroy"}
  /\ th'[t].pc = "done"
  /\ connections[th[t].id] # "none" /\ connections'[th[t].id] = "none"

\* C32: in disconnect, the close of the handle the entry held when the call
\* started is requested before the entry is removed, and disconnect removes no
\* entry that holds a handle it has not asked to close.
C32_CloseBeforeRemoval ==
  /\ [](\A t \in Tasks :
          (th[t].op = "disconnect" /\ th[t].pc # "idle" /\ th[t].pool # 0)
            => pools[th[t].pool].st # "open")
  /\ [][\A t \in Tasks :
          C32_Removes(t)
            => ent[<<th[t].id, connections[th[t].id]>>].connection \in {0, th[t].pool}]_vars

\* C33: a handle is never shared: no pool is the handle of two entry objects,
\* and the pool an entry holds was built for the id of that entry from the
\* credentials the entry stores.
C33_HandleNeverShared ==
  \A e \in DOMAIN ent :
    ent[e].connection # 0 =>
      /\ \A f \in DOMAIN ent : f # e => ent[f].connection # ent[e].connection
      /\ pools[ent[e].connection].id = e[1]
      /\ pools[ent[e].connection].pw = Plain(ent[e].password.v)
      /\ ent[e].password.k = "cipher"

\* two registered entries with different credentials hold a pool each
C33_Witness ==
  \E i, j \in Ids :
    /\ i # j
    /\ connections[i] # "none" /\ connections[j] # "none"
    /\ ent[<<i, connections[i]>>].connection # 0
    /\ ent[<<j, connections[j]>>].connection # 0
    /\ ent[<<i, connections[i]>>].password # ent[<<j, connections[j]>>].password

\* the rules of the type mapper, in the order of their priority
C34_IntegerFamily(type) ==
  \/ StartsWithI(type, <<"i", "n", "t">>)
  \/ StartsWithI(type, <<"b", "i", "g", "i", "n", "t">>)
  \/ StartsWithI(type, <<"s", "m", "a", "l", "l", "i", "n", "t">>)
  \/ StartsWithI(type, <<"m", "e", "d", "i", "u", "m", "i", "n", "t">>)
  \/ /\ StartsWithI(type, <<"t", "i", "n", "y", "i", "n", "t">>)
     /\ ~StartsWithI(type, <<"t", "i", "n", "y", "i", "n", "t", "(", "1", ")">>)

C34_FloatFamily(type) ==
  \/ StartsWithI(type, <<"d", "e", "c", "i", "m", "a", "l">>)
  \/ StartsWithI(type, <<"f", "l", "o", "a", "t">>)
  \/ StartsWithI(type, <<"d", "o", "u", "b", "l", "e">>)

C34_Bit(type) == EqualsI(type, <<"t", "i", "n", "y", "i", "n", "t", "(", "1", ")">>)

C34_DateTime(type) ==
  \/ StartsWithI(type, <<"d", "a", "t", "e", "t", "i", "m", "e">>)
  \/ StartsWithI(type, <<"t", "i", "m", "e", "s", "t", "a", "m", "p">>)

C34_Rules(type) ==
  << <<C34_IntegerFamily(type), "integer">>,
     <<C34_FloatFamily(type), "float">>,
     <<C34_Bit(type), "boolean">>,
     <<C34_DateTime(type), "datetime">>,
     <<Includes(type, <<"d", "a", "t", "e">>), "date">>,
     <<Includes(type, <<"t", "i", "m", "e">>), "time">>,
     <<Includes(type, <<"j", "s", "o", "n">>), "json">>,
     <<TRUE, "string">> >>

C35_ExpiryBoundary ==
  [][\A t \in Tasks :
       LET key == <<th'[t].id, th'[t].tbl>>
           starts == /\ th[t].pc = "idle" /\ th'[t].pc # "idle"
                     /\ th'[t].op = "getTableSchema" /\ ~shuttingDown
           age == (now - cache[key]) * 300000
       IN
       /\ (starts /\ cache[key] # -1 /\ age <= 600000)
            => /\ th'[t].hit
               /\ th'[t].pc = "done" /\ th'[t].ret = "schema"
               /\ th'[t].nDesc = 0 /\ th'[t].nIdx = 0 /\ th'[t].pool = 0
               /\ pools' = pools
       /\ (starts /\ cache[key] # -1 /\ age > 600000) => ~th'[t].hit]_vars

\* C35, amended: a cached schema is treated as absent as soon as its age
\* reaches the TTL: a getTableSchema call that starts when the entry of its
\* key is less than 10 minutes old returns the cached schema in the same step,
\* with no pool and no DESCRIBE / SHOW INDEX, and a call that starts when the
\* entry is 10 minutes old or older is not served from the cache; the age is
\* measured from the capture time the entry was stamped with.
C35_ExpiryAtTtl ==
  [][\A t \in Tasks :
       LET key == <<th'[t].id, th'[t].tbl>>
           starts == /\ th[t].pc = "idle" /\ th'[t].pc # "idle"
                     /\ th'[t].op = "getTableSchema" /\ ~shuttingDown
           age == (now - cache[key]) * 300000
       IN
       /\ (starts /\ cache[key] # -1 /\ age < 600000)
            => /\ th'[t].hit
               /\ th'[t].pc = "done" /\ th'[t].ret = "schema"
               /\ th'[t].nDesc = 0 /\ th'[t].nIdx = 0 /\ th'[t].pool = 0
               /\ pools' = pools
       /\ (starts /\ cache[key] # -1 /\ age >= 600000) => ~th'[t].hit]_vars

\* a call that started when the entry was exactly 10 minutes old is fetching
\* the schema again
C35_Witness ==
  \E t \in Tasks :
    /\ th[t].op = "getTableSchema" /\ th[t].stale /\ ~th[t].hit
    /\ th[t].pc \in {"validate", "describe", "showindex"}
    /\ cache[<<th[t].id, th[t].tbl>>] # -1
    /\ (th[t].t0 - cache[<<th[t].id, th[t].tbl>>]) * 300000 = 600000

\* C36: when the load of saved connections completes, either every record of
\* the credential store has an in-memory entry of its id that carries the
\* record's password and no handle, so that it is listed as disconnected, or
\* the load has failed and the registry is as it was; in both cases the load
\* has constructed no pool and the manager goes on serving requests.
C36_LoadRegistersDisconnected ==
  [][(loadPc = "find" /\ loadPc' = "done")
       => /\ pools' = pools
          /\ UNCHANGED <<shuttingDown, mgrNull, th, reqLeft>>
          /\ \/ \A i \in Ids :
                  store[i] # NoPw
                    => /\ connections'[i] # "none"
                       /\ LET e == ent'[<<i, connections'[i]>>] IN
                          /\ e.password = store[i]
                          /\ e.connection = 0
                          /\ ListStatus(e.connection) = "disconnected"
             \/ (connections' = connections /\ ent' = ent)]_vars

\* the load has completed after a connect had saved a second record, and both
\* records have an entry made by the load, without a handle
C36_Witness ==
  /\ loadPc = "done"
  /\ \A i \in Ids :
       /\ store[i] # NoPw
       /\ connections[i] = "load"
       /\ ent[<<i, "load">>].connection = 0
       /\ ent[<<i, "load">>].password = store[i]

\* C37: a getTableSchema call for an id that is not in the registry fails
\* with NotFound and is served no schema, also when the cache holds an entry
\* of (id, table) that has not expired.
C37_NoSchemaForUnregistered ==
  [][\A t \in Tasks :
       (/\ th[t].pc = "idle" /\ th'[t].pc # "idle"
        /\ th'[t].op = "getTableSchema" /\ ~shuttingDown
        /\ connections[th'[t].id] = "none")
         => /\ th'[t].pc = "done"
            /\ th'[t].err = "NotFound"
            /\ th'[t].ret # "schema"]_vars

\* C38: getConnection hands out no pool whose close has been requested: the
\* pool a call returns is open, also while a disconnect or a sweep of the
\* idle reaper is awaiting pool.end() for the id.
C38_NoClosingPoolHandedOut ==
  [][\A x \in Threads :
       (th[x].gcRes # "ok" /\ th'[x].gcRes = "ok")
         => pools'[th'[x].pool].st = "open"]_vars

\* C39: after a disconnect of an id has completed no open pool of the id is
\* left, also when a getConnection of the id was awaiting the validation of
\* its pool while the disconnect ran: no pool is stored into an entry object
\* that is no longer the registered entry of its id.
C39_NoPoolLeftAfterDisconnect ==
  /\ [][\A t \in Tasks :
          (/\ th[t].op = "disconnect" /\ th[t].pc \in {"end", "destroy"}
           /\ th'[t].pc = "done")
            => \A p \in Pools :
                 ~(pools'[p].st = "open" /\ pools'[p].id = th[t].id)]_vars
  /\ [][\A e \in DOMAIN ent :
          (ent'[e].connection # ent[e].connection /\ ent'[e].connection # 0)
            => connections'[e[1]] = e[2]]_vars

\* pool.end() is called on pool p in this step: by disconnect (line 196), by
\* a sweep of the idle reaper (line 611) or by closeAllConnections (line 538)
C40_EndCalled(p) ==
  \/ \E t \in Tasks :
       /\ th[t].pc = "idle" /\ th'[t].op = "disconnect"
       /\ th'[t].pc = "end" /\ th'[t].pool = p
  \/ /\ sweep' # sweep /\ sweep'.st = "end" /\ sweep'.pool = p
  \/ \E n \in 1..MaxCloseRuns :
       /\ closeRuns[n].st = "idle" /\ closeRuns'[n].st = "waiting"
       /\ p \in closeRuns'[n].pools

\* C40: the close of a pool is requested at most once: disconnect, the idle
\* reaper and closeAllConnections call pool.end() only on a pool whose end()
\* has not been called before.
C40_EndRequestedOnce ==
  [][\A p \in Pools : C40_EndCalled(p) => pools[p].st = "open"]_vars

====
